---- MODULE Spec2Model ----
(***************************************************************************)
(* Release orchestration of script/deploy: ReleaseManager (lib/release.py) *)
(* driving DeploymentRunner (lib/runner.py) and ContractVerifier           *)
(* (lib/verifier.py) over the three Sepolia testnets, with the release     *)
(* state file release_state.json as the only durable state.                *)
(*                                                                         *)
(* One behaviour is a sequence of invocations of `deploy.py                *)
(* deploy:testnets`, one at a time.  The external collaborators (forge,    *)
(* the explorer probe, the broadcast directory, the file system) are the   *)
(* nondeterministic inputs of the actions.                                 *)
(*                                                                         *)
(* Spec, SpecIO, SpecLoad and SpecCrash follow the release; SpecMerge      *)
(* follows update_network_config on one network config file, SpecVerify    *)
(* verify_contracts in one state of the chain, the explorer and the        *)
(* operator, and SpecOutlier the start-block outlier detection alone.      *)
(* SpecRace runs two invocations of the release over one state file,       *)
(* SpecLive the release with its executor invocations counted and with    *)
(* weak fairness of its steps, SpecMain the main of deploy.py for the      *)
(* commands of one network, and SpecAnvil AnvilManager.deploy.             *)
(***************************************************************************)
EXTENDS Integers, Sequences, FiniteSets, TLC

VARIABLES
    file,          \* release_state.json on disk
    summary,       \* ReleaseManager.deployment_summary
    forge_args,    \* args.forge_args, shared by every runner of the invocation
    env_version,   \* os.environ["VERSION"] of the running invocation
    pc,            \* position of the running invocation
    net_idx,       \* index of the for-loop over networks
    step_idx,      \* index of the step block inside _deploy_network
    attempt,       \* local `attempt` of the retry loop
    result,        \* outcome of the last invocation
    faultsLeft,    \* file-system failures the environment may still inject
    atInvoke,      \* history: what the invocation found when it started
    buildCount,    \* history: build_contracts calls of the invocation
    called,        \* history: <<network, step>> executors invoked
    skipped,       \* history: <<network, step>> skipped as already done
    exhausted,     \* history: <<network, step>> whose retries ran out
    outcomes,      \* history: results of the attempts of the current retry loop
    bcast,         \* history: what _has_partial_deployment found for the current step
    lastCall,      \* history: the most recent executor invocation
    config,        \* env/<network>.json of one network
    backup,        \* env/<network>.json.bak
    mresult,       \* how the last update_network_config ended
    merges,        \* update_network_config calls so far
    lastMerge,     \* history: what the last update_network_config was given
    world,         \* what verify_contracts finds: artifact, chain, explorer, operator
    vresult,       \* how the last verify_contracts ended
    verifies,      \* verify_contracts calls so far
    lastVerify,    \* history: the config before the last verify_contracts, its checks
    block_numbers, \* argument of _calculate_start_block_with_outlier_detection
    start_block,   \* what it returned
    procs,         \* two release invocations sharing the state file: each one's position
    race,          \* history of the two: executions, overwritten flags, overlap
    cli,           \* one deploy.py command line and what its external calls return
    proc,          \* how the deploy.py process of that command line ended
    forks,         \* what the external steps of one AnvilManager.deploy return
    anvil,         \* how that AnvilManager.deploy ended, and the steps it ran
    execs          \* history: executor invocations of the running release, per network

releaseVars == <<file, summary, forge_args, env_version, pc, net_idx, step_idx, attempt,
                 result, faultsLeft, atInvoke, buildCount, called, skipped, exhausted,
                 outcomes, bcast, lastCall, execs>>

mergeVars == <<config, backup, mresult, merges, lastMerge>>

verifyVars == <<world, vresult, verifies, lastVerify>>

outlierVars == <<block_numbers, start_block>>

verifierVars == <<mergeVars, verifyVars, outlierVars>>

raceVars == <<procs, race>>

mainVars == <<cli, proc>>

anvilVars == <<forks, anvil>>

commandVars == <<raceVars, mainVars, anvilVars>>

vars == <<file, summary, forge_args, env_version, pc, net_idx, step_idx, attempt,
          result, faultsLeft, atInvoke, buildCount, called, skipped, exhausted,
          outcomes, bcast, lastCall, config, backup, mresult, merges, lastMerge,
          world, vresult, verifies, lastVerify, block_numbers, start_block,
          procs, race, cli, proc, forks, anvil, execs>>

----------------------------------------------------------------------------
(* Program constants *)

NetworkList == <<"sepolia", "base-sepolia", "arbitrum-sepolia">>
Networks == {NetworkList[i] : i \in 1..Len(NetworkList)}

\* the step blocks with wiring ahead of verification
StepList_WireFirst == <<"protocol", "wiring", "verification", "test_data">>

StepList == <<"protocol", "verification", "wiring", "test_data">>
Steps == {StepList[i] : i \in 1..Len(StepList)}

\* the script each step block of _deploy_network passes to its retry helper
ScriptOf(step) ==
    CASE step = "protocol"     -> "LaunchDeployer"
      [] step = "verification" -> "LaunchDeployer"
      [] step = "wiring"       -> "WireAdapters"
      [] step = "test_data"    -> "TestData"

\* the step blocks that go through _retry_deployment (the others: _retry_verification)
DeploySteps == {"protocol", "wiring", "test_data"}

Retries == 3
RecencyWindow == 3600
ResumeFlag == "--resume"

----------------------------------------------------------------------------
(* Inputs *)

NoValue == "none"
Versions == {"v1", "v2"}

\* how many file-system failures one behaviour of SpecIO may see
MaxFaults == 1

\* forge arguments the operator may pass on the command line
OperatorArgs == {<< >>, <<ResumeFlag>>}

\* age in seconds of broadcast/<script>.s.sol/<chain>/run-latest.json
BroadcastAges == {0, 3599, 3600, 90000}

----------------------------------------------------------------------------
(* deployment_summary and the state file *)

NewStatus == [protocol |-> FALSE, verification |-> FALSE, wiring |-> FALSE, test_data |-> FALSE]
NoNetworks == [n \in {} |-> NewStatus]

\* the dict {} of _load_state / clear_state
EmptySummary ==
    [version |-> NoValue, networks |-> NoNetworks, started_at |-> FALSE,
     failed_at |-> NoValue, completed_at |-> FALSE]

\* the dict built when no version is recorded yet
InitialSummary(v) ==
    [version |-> v, networks |-> NoNetworks, started_at |-> TRUE,
     failed_at |-> NoValue, completed_at |-> FALSE]

AbsentFile == [status |-> "absent", data |-> EmptySummary]
CorruptFile == [status |-> "corrupt", data |-> EmptySummary]
ValidFile(s) == [status |-> "valid", data |-> s]
\* bytes that are not text in the locale's encoding: open(..., 'r') succeeds and
\* json.load's f.read() raises UnicodeDecodeError, which _load_state does not catch
UndecodableFile == [status |-> "undecodable", data |-> EmptySummary]

\* a load that always starts from the empty dict
LoadState_Fresh(f) == EmptySummary

LoadState(f) == IF f.status = "valid" THEN f.data ELSE EmptySummary

\* _load_state catches json.JSONDecodeError and FileNotFoundError only
LoadRaises(f) == f.status = "undecodable"

SaveOutcomes == IF faultsLeft > 0 THEN {"ok", "open_failed", "write_failed"} ELSE {"ok"}

\* open(..., 'w') then json.dump, every exception swallowed
SaveState(f, s, outcome) ==
    CASE outcome = "ok"           -> ValidFile(s)
      [] outcome = "open_failed"  -> f
      [] outcome = "write_failed" -> CorruptFile

\* _save_state as a step: the file written, one failure spent if the write failed
Save(s, outcome) ==
    /\ file' = SaveState(file, s, outcome)
    /\ faultsLeft' = IF outcome = "ok" THEN faultsLeft ELSE faultsLeft - 1

\* clear_state: unlink the file if it exists
ClearState(f) == AbsentFile

\* a network counted as complete as soon as its protocol is deployed
IsNetworkComplete_ProtocolOnly(s, n) ==
    n \in DOMAIN s.networks /\ s.networks[n].protocol

IsNetworkComplete(s, n) ==
    IF n \notin DOMAIN s.networks THEN FALSE
    ELSE /\ s.networks[n].protocol
         /\ s.networks[n].verification
         /\ s.networks[n].wiring
         /\ s.networks[n].test_data

\* the dict entry _deploy_network creates for a network it has not seen
WithNetwork(s, n) ==
    IF n \in DOMAIN s.networks THEN s
    ELSE [s EXCEPT !.networks =
             [m \in DOMAIN s.networks \cup {n} |->
                 IF m = n THEN NewStatus ELSE s.networks[m]]]

\* the wiring block recording its success under the next block's key
MarkStep_WrongKey(s, n, step) ==
    [s EXCEPT !.networks[n][IF step = "wiring" THEN "test_data" ELSE step] = TRUE]

\* deployment_summary["networks"][network][step_name] = True
MarkStep(s, n, step) == [s EXCEPT !.networks[n][step] = TRUE]

\* a step block that never looks at its flag
StepPending_Always(s, n, step) == TRUE

\* `if not self.deployment_summary["networks"][network][step]` of a step block
StepPending(s, n, step) == ~s.networks[n][step]

----------------------------------------------------------------------------
(* Script runner *)

\* `x in seq`
Contains(seq, x) == \E i \in 1..Len(seq) : seq[i] = x

\* a retry that leaves the arguments as they are
AddResume_Never(fa) == fa

\* `if "--resume" not in forge_args: forge_args.append("--resume")`
AddResume(fa) == IF Contains(fa, ResumeFlag) THEN fa ELSE Append(fa, ResumeFlag)

\* _build_command for forge on a testnet, keys and urls left out
BuildCommand(script, network, fa) ==
    <<"forge", "script", script, "--tc", script, "--rpc-url", "--chain-id", "--private-key">>
    \o fa
    \o <<"--broadcast">>
    \o (IF network = "base-sepolia" THEN <<"--gas-price", "100000000000", "--slow">> ELSE << >>)

\* the second command of run_deploy: forge's own verification pass
VerifyCommand(cmd) ==
    LET c == Append(cmd, "--verify") IN
    IF Contains(c, ResumeFlag) THEN c ELSE Append(c, ResumeFlag)

RunOutcomes(script) ==
    IF script = "TestData" THEN {"ok", "deploy_failed"}
    ELSE {"ok", "deploy_failed", "verify_failed"}

\* the commands run_deploy hands to _run_command, in order
RunDeployCommands(script, network, fa, outcome) ==
    LET base == BuildCommand(script, network, fa) IN
    IF outcome = "deploy_failed" \/ script = "TestData"
    THEN <<base>>
    ELSE <<base, VerifyCommand(base)>>

RunDeploy(outcome) == outcome = "ok"

\* _has_partial_deployment on what the broadcast directory holds
BroadcastStates ==
    {[exists |-> FALSE, statOk |-> TRUE, age |-> 0]}
    \cup {[exists |-> TRUE, statOk |-> TRUE, age |-> a] : a \in BroadcastAges}
    \cup (IF faultsLeft > 0 THEN {[exists |-> TRUE, statOk |-> FALSE, age |-> 0]} ELSE {})

\* a broadcast check that never reports a partial run
HasPartialDeployment_Never(b) == FALSE

HasPartialDeployment(b) ==
    IF ~b.exists THEN FALSE
    ELSE IF ~b.statOk THEN FALSE
    ELSE b.age < RecencyWindow

NoBroadcast == [exists |-> FALSE, statOk |-> TRUE, age |-> 0]

----------------------------------------------------------------------------
(* History *)

NoCall ==
    [network |-> NoValue, step |-> NoValue, attempt |-> 0, afterFailure |-> FALSE,
     success |-> FALSE, cmds |-> << >>, broadcast |-> NoBroadcast, fileAtCall |-> AbsentFile]

NoInvoke == [file |-> AbsentFile, version |-> NoValue, versionChanged |-> FALSE, args |-> << >>]

CurNet == NetworkList[net_idx]
CurStep == StepList[step_idx]

----------------------------------------------------------------------------
(* The network config file and what update_network_config merges into it *)

NameList == <<"gateway", "root">>
ContractNames == {NameList[i] : i \in 1..Len(NameList)}

\* addresses as they are spelled in the files
Addresses == {"0xaa", "0xAA", "0xbb"}

\* str.lower()
Lower(a) == IF a = "0xAA" THEN "0xaa" ELSE a

LowerAddresses == {Lower(a) : a \in Addresses}

\* None for a block number, None for a transaction hash, a missing or empty address
NullBlock == -1
NullTx == "null"
NoAddress == ""

\* a value of the contracts dict: no key, a bare address, or a dict
AbsentEntry == [kind |-> "absent", address |-> NoAddress, blockNumber |-> NullBlock, txHash |-> NullTx]
StringEntry(a) == [kind |-> "string", address |-> a, blockNumber |-> NullBlock, txHash |-> NullTx]
RecordEntry(a, b, t) == [kind |-> "record", address |-> a, blockNumber |-> b, txHash |-> t]

\* args.step of the commands that reach update_network_config
ArgsSteps == {"deploy:testnets", "deploy:adapters", "verify"}

\* lines 371-374: the deploymentInfo key the command writes
DeploymentStep(step) ==
    IF step \in {"release:sepolia", "deploy:testnets"} THEN "deploy:full" ELSE step

InfoKeys == {DeploymentStep(st) : st \in ArgsSteps}

\* `"deploy" in deployment_step`
IsDeployStep(key) == key \in {"deploy:full", "deploy:adapters"}

\* a timestamp key that is not there
NoTime == NullBlock

\* `git rev-parse --short HEAD` of the working tree, lines 291-296
GitCommit == "c2"

\* time.time() while the command runs, in seconds
Clock == 200000

\* VERSION of the environment: set, or not set
MergeVersions == {"v1", NoValue}

\* os.environ.get("VERSION", "Null / NotSet")
EnvVersion(v) == IF v = NoValue THEN "Null / NotSet" ELSE v

\* deploymentInfo[key]: whether the key is there, and the keys it holds
NoInfoEntry ==
    [present |-> FALSE, startBlock |-> NullBlock, gitCommit |-> NoValue,
     timestamp |-> NoTime, version |-> NoValue]

InfoEntry(commit, ts, version, sb) ==
    [present |-> TRUE, startBlock |-> sb, gitCommit |-> commit, timestamp |-> ts,
     version |-> version]

\* lines 380-384: the dict a deploy step writes
FreshInfoEntry(commit, ts, version) == InfoEntry(commit, ts, version, NullBlock)

NoContracts == [n \in ContractNames |-> AbsentEntry]
NoInfo == [k \in InfoKeys |-> NoInfoEntry]

EmptyConfig == [status |-> "valid", contracts |-> NoContracts, info |-> NoInfo]

\* a file cut off in the middle of json.dump
PartialConfig == [status |-> "partial", contracts |-> NoContracts, info |-> NoInfo]

NoBackup == [exists |-> FALSE, content |-> EmptyConfig]
BackupOf(c) == [exists |-> TRUE, content |-> c]

\* the dict _get_broadcast_deployment_info returns, keyed by lower-case address
Unresolved == [blockNumber |-> NullBlock, txHash |-> NullTx]
NoBroadcastInfo == [a \in LowerAddresses |-> Unresolved]

BroadcastInfos ==
    {NoBroadcastInfo,
     [a \in LowerAddresses |->
         IF a = "0xaa" THEN [blockNumber |-> 1000, txHash |-> "0xab"] ELSE Unresolved],
     [a \in LowerAddresses |->
         IF a = "0xaa" THEN [blockNumber |-> 2000, txHash |-> "0xcd"]
         ELSE [blockNumber |-> 1000, txHash |-> "0xab"]]}

\* deploymentStartBlock of env/latest/<chain>-latest.json: no key, a number, a
\* decimal string, or a string int() rejects
NoStartBlock == [kind |-> "none", n |-> 0]
StartBlocks ==
    {NoStartBlock, [kind |-> "int", n |-> 1500], [kind |-> "str", n |-> 1500],
     [kind |-> "bad", n |-> 0]}

\* int(deployment_start_block) for the values it accepts
ToInt(v) == v.n

ArtifactContracts ==
    {[n \in ContractNames |-> IF n = "gateway" THEN g ELSE r] :
        g \in {AbsentEntry, StringEntry(NoAddress), StringEntry("0xaa"),
               StringEntry("0xAA"), RecordEntry("0xbb", NullBlock, NullTx)},
        r \in {AbsentEntry, StringEntry("0xbb")}}

\* st_mtime of an artifact written a minute before the command runs
RecentMtime == Clock - 60

UnparsableArtifact ==
    [status |-> "corrupt", contracts |-> NoContracts, startBlock |-> NoStartBlock,
     mtime |-> RecentMtime]

\* the artifacts that carry a deploymentStartBlock
StartBlockContracts ==
    {[n \in ContractNames |-> IF n = "gateway" THEN StringEntry("0xAA") ELSE StringEntry("0xbb")]}

Artifacts ==
    {[status |-> "valid", contracts |-> c, startBlock |-> NoStartBlock,
      mtime |-> RecentMtime] : c \in ArtifactContracts}
    \cup {[status |-> "valid", contracts |-> c, startBlock |-> sb, mtime |-> RecentMtime] :
             c \in StartBlockContracts, sb \in StartBlocks \ {NoStartBlock}}
    \cup {UnparsableArtifact}

\* what the environment does to one run of update_network_config
MergeEnvs == {"ok", "git_failed", "write_failed", "killed_in_write"}

\* network configs as they are created out of band or left by earlier merges
InitialConfigs ==
    {EmptyConfig,
     [status |-> "valid",
      contracts |-> [n \in ContractNames |->
                        IF n = "gateway" THEN RecordEntry("0xAA", 900, "0x9a")
                        ELSE AbsentEntry],
      info |-> [k \in InfoKeys |->
                   IF k = "deploy:full" THEN InfoEntry("c1", 5000, "v1", 900)
                   ELSE NoInfoEntry]],
     [status |-> "valid",
      contracts |-> [n \in ContractNames |->
                        IF n = "gateway" THEN StringEntry("0xaa") ELSE AbsentEntry],
      info |-> [k \in InfoKeys |->
                   IF k = "verify" THEN InfoEntry(NoValue, NoTime, "v1", 900)
                   ELSE NoInfoEntry]],
     [status |-> "valid",
      contracts |-> [n \in ContractNames |->
                        IF n = "gateway" THEN RecordEntry("0xaa", NullBlock, NullTx)
                        ELSE RecordEntry("0xbb", 900, "0x9a")],
      info |-> [k \in InfoKeys |->
                   IF k = "deploy:adapters" THEN InfoEntry("c1", 5000, "v0", 900)
                   ELSE NoInfoEntry]],
     [status |-> "valid",
      contracts |-> [n \in ContractNames |->
                        IF n = "gateway" THEN RecordEntry("0xbb", 900, "0x9a")
                        ELSE AbsentEntry],
      info |-> [k \in InfoKeys |->
                   IF k = "deploy:full" THEN FreshInfoEntry("c1", 5000, "v1")
                   ELSE NoInfoEntry]]}

\* how many merges one behaviour follows
MaxMerges == 1

NoMerge ==
    [pre |-> EmptyConfig, artifact |-> UnparsableArtifact, blog |-> NoBroadcastInfo,
     step |-> NoValue, env |-> NoValue, version |-> NoValue]

MergeIdle ==
    /\ config = EmptyConfig
    /\ backup = NoBackup
    /\ mresult = "none"
    /\ merges = 0
    /\ lastMerge = NoMerge

----------------------------------------------------------------------------
(* What verify_contracts meets: the artifact, the chain, the explorer and the *)
(* operator at the prompt                                                    *)

\* the eth_getCode exchange: a "result" string, "result": null, a response
\* without "result", or urlopen / json.loads raising
StrCode(c) == [kind |-> "str", s |-> c]
NoneCode == [kind |-> "none", s |-> ""]
MissingResult == [kind |-> "missing", s |-> ""]
RpcRaises == [kind |-> "raises", s |-> ""]

Bytecode == "0x6080"

RpcResults ==
    {MissingResult, NoneCode, StrCode(""), StrCode("0x"), StrCode("null"),
     StrCode(Bytecode), RpcRaises}

\* the getsourcecode exchange: status, SourceCode and ContractName of the reply,
\* or urlopen raising
ExplorerReply(status, source, name) ==
    [kind |-> "reply", status |-> status, source |-> source, name |-> name]
ExplorerRaises == [kind |-> "raises", status |-> "", source |-> "", name |-> ""]

NotVerifiedText == "Contract source code not verified"
VerifiedReply == ExplorerReply("1", "contract Gateway {}", "Gateway")

ExplorerResults ==
    {ExplorerRaises, ExplorerReply("0", "", ""), ExplorerReply("1", NotVerifiedText, ""),
     VerifiedReply}

\* what the chain and the explorer say about each contract of the artifact
ChainStates ==
    {[n \in ContractNames |-> IF n = "gateway" THEN g ELSE r] :
        g \in RpcResults, r \in {StrCode(Bytecode), StrCode("0x")}}
ExplorerStates ==
    {[n \in ContractNames |-> IF n = "gateway" THEN g ELSE VerifiedReply] :
        g \in ExplorerResults}

\* the lines the operator types at "Do you want to proceed? (y/N)"; the end of
\* the sequence is the end of the input (EOFError), Interrupt is Ctrl-C
Interrupt == "^C"
OperatorAnswers ==
    {<< >>, <<"y">>, <<"YES ">>, <<"n">>, <<"">>, <<"maybe", "y">>, <<Interrupt>>}

\* str.strip().lower()
StripLower(a) == IF a = "YES " THEN "yes" ELSE a

OneDay == 86400

AbsentArtifact ==
    [status |-> "absent", contracts |-> NoContracts, startBlock |-> NoStartBlock,
     mtime |-> 0]

\* st_mtime of the artifact: a minute old, around one day old, 25 hours old
Mtimes ==
    {RecentMtime, Clock - (OneDay - 1), Clock - OneDay, Clock - (OneDay + 1), Clock - 90000}

GatewayOnly == [n \in ContractNames |-> IF n = "gateway" THEN StringEntry("0xaa") ELSE AbsentEntry]
GatewayAndRoot ==
    [n \in ContractNames |-> IF n = "gateway" THEN StringEntry("0xAA") ELSE StringEntry("0xbb")]

VerifyArtifacts ==
    {AbsentArtifact, UnparsableArtifact,
     [status |-> "valid", contracts |-> NoContracts, startBlock |-> NoStartBlock,
      mtime |-> RecentMtime],
     [status |-> "valid", contracts |-> GatewayOnly, startBlock |-> [kind |-> "bad", n |-> 0],
      mtime |-> RecentMtime]}
    \cup {[status |-> "valid", contracts |-> c, startBlock |-> NoStartBlock, mtime |-> m] :
             c \in {GatewayOnly, GatewayAndRoot}, m \in Mtimes}

\* what the environment does to the merge verify_contracts may start
VerifyEnvs == {"ok", "git_failed", "write_failed"}

Worlds ==
    [artifact : VerifyArtifacts, rpc : ChainStates, explorer : ExplorerStates,
     answers : OperatorAnswers, dry_run : BOOLEAN, env : VerifyEnvs]

NoWorld ==
    [artifact |-> AbsentArtifact, rpc |-> [n \in ContractNames |-> RpcRaises],
     explorer |-> [n \in ContractNames |-> ExplorerRaises], answers |-> << >>,
     dry_run |-> FALSE, env |-> NoValue]

NoVerify ==
    [pre |-> EmptyConfig, deployed |-> [n \in ContractNames |-> FALSE],
     verified |-> [n \in ContractNames |-> FALSE], merged |-> FALSE]

\* how many verify_contracts calls one behaviour follows
MaxVerifies == 1

VerifyIdle ==
    /\ world = NoWorld
    /\ vresult = "none"
    /\ verifies = 0
    /\ lastVerify = NoVerify

\* _calculate_start_block_with_outlier_detection not called yet
NotCalled == [called |-> FALSE, value |-> NullBlock]

OutlierIdle ==
    /\ block_numbers = << >>
    /\ start_block = NotCalled

VerifierIdle == MergeIdle /\ VerifyIdle /\ OutlierIdle

\* no executor invoked yet
NoExecs == [n \in Networks |-> 0]

\* the two invocations of the concurrent run
Invocations == {1, 2}

IdleInvocation ==
    [pc |-> "idle", summary |-> EmptySummary, net_idx |-> 1, step_idx |-> 1, result |-> "none"]

NoRace ==
    [runs |-> [n \in Networks, s \in Steps |-> 0], lost |-> FALSE, overlapped |-> FALSE]

RaceIdle ==
    /\ procs = [p \in Invocations |-> IdleInvocation]
    /\ race = NoRace

\* deploy.py not started
Running == [done |-> FALSE, code |-> 0, scripts |-> << >>, raised |-> "none"]

NoCli ==
    [step |-> "none", forge_args |-> << >>, catapulta |-> FALSE, is_testnet |-> FALSE,
     has_latest |-> FALSE, deploy |-> FALSE, verify |-> << >>, test_data |-> FALSE]

MainIdle ==
    /\ cli = NoCli
    /\ proc = Running

\* AnvilManager.deploy not started
ForkOk == [launch |-> TRUE, merge |-> TRUE, test_data |-> TRUE, merge_test |-> TRUE, wire |-> "ok"]

NoForks == [setup |-> TRUE, sepolia |-> ForkOk, arbitrum |-> ForkOk]

NotDeployed == [done |-> FALSE, returned |-> "none", trace |-> << >>]

AnvilIdle ==
    /\ forks = NoForks
    /\ anvil = NotDeployed

CommandIdle == RaceIdle /\ MainIdle /\ AnvilIdle

----------------------------------------------------------------------------
Init ==
    /\ VerifierIdle
    /\ CommandIdle
    /\ file = AbsentFile
    /\ summary = EmptySummary
    /\ forge_args = << >>
    /\ env_version = NoValue
    /\ pc = "idle"
    /\ net_idx = 1
    /\ step_idx = 1
    /\ attempt = 0
    /\ result = "none"
    /\ faultsLeft = 0
    /\ atInvoke = NoInvoke
    /\ buildCount = 0
    /\ called = {}
    /\ skipped = {}
    /\ exhausted = {}
    /\ outcomes = << >>
    /\ bcast = NoBroadcast
    /\ lastCall = NoCall
    /\ execs = NoExecs

\* the same program on a file system whose writes and stats may fail
InitIO ==
    /\ VerifierIdle
    /\ CommandIdle
    /\ file = AbsentFile
    /\ summary = EmptySummary
    /\ forge_args = << >>
    /\ env_version = NoValue
    /\ pc = "idle"
    /\ net_idx = 1
    /\ step_idx = 1
    /\ attempt = 0
    /\ result = "none"
    /\ faultsLeft = MaxFaults
    /\ atInvoke = NoInvoke
    /\ buildCount = 0
    /\ called = {}
    /\ skipped = {}
    /\ exhausted = {}
    /\ outcomes = << >>
    /\ bcast = NoBroadcast
    /\ lastCall = NoCall
    /\ execs = NoExecs

----------------------------------------------------------------------------
(* deploy_sepolia_testnets *)

\* a version check that never fires
VersionChanged_Never(loaded, v) == FALSE

VersionChanged(loaded, v) == loaded.version # NoValue /\ loaded.version # v

\* a build on every invocation
NeedsBuild_Always(s) == TRUE

\* a build whenever some network is still to be finished
NeedsBuild_Incomplete(s) ==
    \E n \in Networks : n \notin DOMAIN s.networks \/ ~s.networks[n].test_data

\* `if not self.deployment_summary.get("networks")`
NeedsBuild(s) == DOMAIN s.networks = {}

\* lines 48-76: load, version check, build, initial summary
Invoke(v, fa) ==
    /\ UNCHANGED <<verifierVars, commandVars>>
    /\ pc = "idle"
    /\ IF LoadRaises(file)
       THEN \* the exception leaves deploy_sepolia_testnets at line 49
            /\ summary' = EmptySummary
            /\ pc' = "idle"
            /\ result' = "load_error"
            /\ buildCount' = 0
            /\ atInvoke' = [file |-> file, version |-> v, versionChanged |-> FALSE, args |-> fa]
            /\ UNCHANGED file
       ELSE
       LET loaded == LoadState(file)
           changed == VersionChanged(loaded, v)
           kept == IF changed THEN EmptySummary ELSE loaded
           build == NeedsBuild(kept)
       IN \E buildOk \in (IF build THEN BOOLEAN ELSE {TRUE}) :
            /\ file' = IF changed THEN ClearState(file) ELSE file
            /\ buildCount' = IF build THEN 1 ELSE 0
            /\ IF buildOk
               THEN /\ summary' = IF kept.version = NoValue THEN InitialSummary(v) ELSE kept
                    /\ pc' = "loop"
                    /\ result' = "running"
               ELSE \* forge build exits non-zero: CalledProcessError ends the process
                    /\ summary' = kept
                    /\ pc' = "idle"
                    /\ result' = "error"
            /\ atInvoke' = [file |-> file, version |-> v, versionChanged |-> changed, args |-> fa]
    /\ env_version' = v
    /\ forge_args' = fa
    /\ net_idx' = 1
    /\ step_idx' = 1
    /\ attempt' = 0
    /\ called' = {}
    /\ skipped' = {}
    /\ exhausted' = {}
    /\ outcomes' = << >>
    /\ bcast' = NoBroadcast
    /\ lastCall' = NoCall
    /\ UNCHANGED faultsLeft

\* lines 42-46: VERSION is not set
InvokeWithoutVersion ==
    /\ UNCHANGED <<verifierVars, commandVars>>
    /\ pc = "idle"
    /\ result' = "failure"
    /\ env_version' = NoValue
    /\ summary' = EmptySummary
    /\ atInvoke' = [file |-> file, version |-> NoValue, versionChanged |-> FALSE, args |-> << >>]
    /\ buildCount' = 0
    /\ called' = {}
    /\ skipped' = {}
    /\ exhausted' = {}
    /\ outcomes' = << >>
    /\ bcast' = NoBroadcast
    /\ lastCall' = NoCall
    /\ forge_args' = << >>
    /\ UNCHANGED <<file, pc, net_idx, step_idx, attempt, faultsLeft>>

\* lines 81-85: the network is complete, `continue`
SkipNetwork ==
    /\ UNCHANGED <<verifierVars, commandVars>>
    /\ pc = "loop"
    /\ net_idx <= Len(NetworkList)
    /\ IsNetworkComplete(summary, CurNet)
    /\ net_idx' = net_idx + 1
    /\ skipped' = skipped \cup {<<CurNet, s>> : s \in Steps}
    /\ UNCHANGED <<file, summary, forge_args, env_version, pc, step_idx, attempt, result,
                   faultsLeft, atInvoke, buildCount, called, exhausted, outcomes, bcast, lastCall>>

\* lines 89, 112-130: enter _deploy_network
EnterNetwork ==
    /\ UNCHANGED <<verifierVars, commandVars>>
    /\ pc = "loop"
    /\ net_idx <= Len(NetworkList)
    /\ ~IsNetworkComplete(summary, CurNet)
    /\ summary' = WithNetwork(summary, CurNet)
    /\ pc' = "network"
    /\ step_idx' = 1
    /\ UNCHANGED <<file, forge_args, env_version, net_idx, attempt, result,
                   faultsLeft, atInvoke, buildCount, called, skipped, exhausted, outcomes,
                   bcast, lastCall>>

\* lines 95-100: every network went through
ReleaseSuccess ==
    /\ UNCHANGED <<verifierVars, commandVars>>
    /\ pc = "loop"
    /\ net_idx > Len(NetworkList)
    /\ summary' = [summary EXCEPT !.completed_at = TRUE]
    /\ \E so \in SaveOutcomes : Save(summary', so)
    /\ result' = "success"
    /\ pc' = "idle"
    /\ UNCHANGED <<forge_args, env_version, net_idx, step_idx, attempt,
                   atInvoke, buildCount, called, skipped, exhausted, outcomes,
                   bcast, lastCall>>

\* the failure recorded, but the loop goes on to the next network
ReleaseAbort_NoReturn ==
    /\ UNCHANGED <<verifierVars, commandVars>>
    /\ pc = "net_failed"
    /\ summary' = [summary EXCEPT !.failed_at = CurNet]
    /\ \E so \in SaveOutcomes : Save(summary', so)
    /\ pc' = "loop"
    /\ net_idx' = net_idx + 1
    /\ UNCHANGED <<forge_args, env_version, step_idx, attempt, result,
                   atInvoke, buildCount, called, skipped, exhausted, outcomes,
                   bcast, lastCall>>

\* the failed release stamped as completed
ReleaseAbort_MarksCompleted ==
    /\ UNCHANGED <<verifierVars, commandVars>>
    /\ pc = "net_failed"
    /\ summary' = [summary EXCEPT !.failed_at = CurNet, !.completed_at = TRUE]
    /\ \E so \in SaveOutcomes : Save(summary', so)
    /\ result' = "failure"
    /\ pc' = "idle"
    /\ UNCHANGED <<forge_args, env_version, net_idx, step_idx, attempt,
                   atInvoke, buildCount, called, skipped, exhausted, outcomes,
                   bcast, lastCall>>

\* lines 89-93: _deploy_network returned False
ReleaseAbort ==
    /\ UNCHANGED <<verifierVars, commandVars>>
    /\ pc = "net_failed"
    /\ summary' = [summary EXCEPT !.failed_at = CurNet]
    /\ \E so \in SaveOutcomes : Save(summary', so)
    /\ result' = "failure"
    /\ pc' = "idle"
    /\ UNCHANGED <<forge_args, env_version, net_idx, step_idx, attempt,
                   atInvoke, buildCount, called, skipped, exhausted, outcomes,
                   bcast, lastCall>>

----------------------------------------------------------------------------
(* _deploy_network *)

\* `else: print("... already ..., skipping")` of a step block
SkipStep ==
    /\ UNCHANGED <<verifierVars, commandVars>>
    /\ pc = "network"
    /\ step_idx <= Len(StepList)
    /\ ~StepPending(summary, CurNet, CurStep)
    /\ step_idx' = step_idx + 1
    /\ skipped' = skipped \cup {<<CurNet, CurStep>>}
    /\ UNCHANGED <<file, summary, forge_args, env_version, pc, net_idx, attempt, result,
                   faultsLeft, atInvoke, buildCount, called, exhausted, outcomes, bcast, lastCall>>

\* lines 168-170: all four step blocks passed
FinishNetwork ==
    /\ UNCHANGED <<verifierVars, commandVars>>
    /\ pc = "network"
    /\ step_idx > Len(StepList)
    /\ \E so \in SaveOutcomes : Save(summary, so)
    /\ pc' = "loop"
    /\ net_idx' = net_idx + 1
    /\ UNCHANGED <<summary, forge_args, env_version, step_idx, attempt, result,
                   atInvoke, buildCount, called, skipped, exhausted, outcomes,
                   bcast, lastCall>>

\* a step block that saves but falls through to the next block
StepFailed_Continue ==
    /\ \E so \in SaveOutcomes : Save(summary, so)
    /\ pc' = "network"
    /\ step_idx' = step_idx + 1
    /\ exhausted' = exhausted \cup {<<CurNet, CurStep>>}
    /\ UNCHANGED summary

\* `self._save_state(); return False` of a step block whose retry helper gave up
StepFailed ==
    /\ \E so \in SaveOutcomes : Save(summary, so)
    /\ pc' = "net_failed"
    /\ exhausted' = exhausted \cup {<<CurNet, CurStep>>}
    /\ UNCHANGED <<summary, step_idx>>

----------------------------------------------------------------------------
(* _retry_deployment *)

\* a loop that gives up one attempt early
RetryAgain_OneShort(a) == a < Retries - 1

\* a loop that goes round once more
RetryAgain_OneMore(a) == a < Retries + 1

\* `while attempt < retries` / `if attempt < retries`
RetryAgain(a) == a < Retries

\* lines 206-214: the broadcast check before the first attempt
BeginRetryDeployment ==
    /\ UNCHANGED <<verifierVars, commandVars>>
    /\ pc = "network"
    /\ step_idx <= Len(StepList)
    /\ CurStep \in DeploySteps
    /\ StepPending(summary, CurNet, CurStep)
    /\ \E b \in BroadcastStates :
         /\ bcast' = b
         /\ forge_args' = IF HasPartialDeployment(b) THEN AddResume(forge_args) ELSE forge_args
         /\ faultsLeft' = IF b.statOk THEN faultsLeft ELSE faultsLeft - 1
    /\ attempt' = 0
    /\ outcomes' = << >>
    /\ pc' = "retry"
    /\ UNCHANGED <<file, summary, env_version, net_idx, step_idx, result,
                   atInvoke, buildCount, called, skipped, exhausted, lastCall>>

\* lines 216-233: one pass of the loop; on exhaustion the caller's
\* `self._save_state(); return False` (lines 136-137 and its siblings)
RetryDeploymentAttempt ==
    /\ UNCHANGED <<verifierVars, commandVars>>
    /\ pc = "retry"
    /\ CurStep \in DeploySteps
    /\ \E out \in RunOutcomes(ScriptOf(CurStep)) :
         LET a == attempt + 1
             ok == RunDeploy(out)
             marked == MarkStep(summary, CurNet, CurStep)
         IN /\ attempt' = a
            /\ called' = called \cup {<<CurNet, CurStep>>}
            /\ outcomes' = Append(outcomes, ok)
            /\ lastCall' = [network |-> CurNet, step |-> CurStep, attempt |-> a,
                            afterFailure |-> (attempt > 0), success |-> ok,
                            cmds |-> RunDeployCommands(ScriptOf(CurStep), CurNet, forge_args, out),
                            broadcast |-> bcast, fileAtCall |-> file]
            /\ IF ok
               THEN /\ summary' = marked
                    /\ \E so \in SaveOutcomes : Save(marked, so)
                    /\ pc' = "network"
                    /\ step_idx' = step_idx + 1
                    /\ UNCHANGED <<forge_args, exhausted>>
               ELSE IF RetryAgain(a)
               THEN /\ forge_args' = AddResume(forge_args)
                    /\ UNCHANGED <<summary, file, faultsLeft, pc, step_idx, exhausted>>
               ELSE /\ StepFailed
                    /\ UNCHANGED forge_args
    /\ UNCHANGED <<env_version, net_idx, result, atInvoke, buildCount, skipped, bcast>>

----------------------------------------------------------------------------
(* _retry_verification *)

\* lines 248-249
BeginRetryVerification ==
    /\ UNCHANGED <<verifierVars, commandVars>>
    /\ pc = "network"
    /\ step_idx <= Len(StepList)
    /\ CurStep \notin DeploySteps
    /\ StepPending(summary, CurNet, CurStep)
    /\ attempt' = 0
    /\ outcomes' = << >>
    /\ bcast' = NoBroadcast
    /\ pc' = "retry"
    /\ UNCHANGED <<file, summary, forge_args, env_version, net_idx, step_idx, result,
                   faultsLeft, atInvoke, buildCount, called, skipped, exhausted, lastCall>>

\* lines 251-266: one pass of the loop; on exhaustion the caller's save and return
RetryVerificationAttempt ==
    /\ UNCHANGED <<verifierVars, commandVars>>
    /\ pc = "retry"
    /\ CurStep \notin DeploySteps
    /\ \E ok \in BOOLEAN :
         LET a == attempt + 1
             marked == MarkStep(summary, CurNet, CurStep)
         IN /\ attempt' = a
            /\ called' = called \cup {<<CurNet, CurStep>>}
            /\ outcomes' = Append(outcomes, ok)
            /\ lastCall' = [network |-> CurNet, step |-> CurStep, attempt |-> a,
                            afterFailure |-> (attempt > 0), success |-> ok,
                            cmds |-> << >>, broadcast |-> bcast, fileAtCall |-> file]
            /\ IF ok
               THEN /\ summary' = marked
                    /\ \E so \in SaveOutcomes : Save(marked, so)
                    /\ pc' = "network"
                    /\ step_idx' = step_idx + 1
                    /\ UNCHANGED exhausted
               ELSE IF RetryAgain(a)
               THEN UNCHANGED <<summary, file, faultsLeft, pc, step_idx, exhausted>>
               ELSE StepFailed
    /\ UNCHANGED <<forge_args, env_version, net_idx, result, atInvoke, buildCount,
                   skipped, bcast>>

----------------------------------------------------------------------------
Next ==
    \/ \E v \in Versions, fa \in OperatorArgs : Invoke(v, fa) /\ UNCHANGED execs
    \/ InvokeWithoutVersion /\ UNCHANGED execs
    \/ SkipNetwork /\ UNCHANGED execs
    \/ EnterNetwork /\ UNCHANGED execs
    \/ ReleaseSuccess /\ UNCHANGED execs
    \/ ReleaseAbort /\ UNCHANGED execs
    \/ SkipStep /\ UNCHANGED execs
    \/ FinishNetwork /\ UNCHANGED execs
    \/ BeginRetryDeployment /\ UNCHANGED execs
    \/ RetryDeploymentAttempt /\ UNCHANGED execs
    \/ BeginRetryVerification /\ UNCHANGED execs
    \/ RetryVerificationAttempt /\ UNCHANGED execs

Spec == Init /\ [][Next]_vars

\* an exit status that does not look at what the release returned
ExitCode_AlwaysZero(res) == 0

\* deploy.py, `sys.exit(0 if success else 1)` at line 253, sys.exit(1) at line 152
\* and in the handler of any exception at line 338
ExitCode(res) == IF res = "success" THEN 0 ELSE 1

SpecIO == InitIO /\ [][Next]_vars

----------------------------------------------------------------------------
(* The state file the first invocation may find *)

InitialFiles == {AbsentFile, CorruptFile, UndecodableFile}

InitLoad ==
    /\ VerifierIdle
    /\ CommandIdle
    /\ file \in InitialFiles
    /\ summary = EmptySummary
    /\ forge_args = << >>
    /\ env_version = NoValue
    /\ pc = "idle"
    /\ net_idx = 1
    /\ step_idx = 1
    /\ attempt = 0
    /\ result = "none"
    /\ faultsLeft = 0
    /\ atInvoke = NoInvoke
    /\ buildCount = 0
    /\ called = {}
    /\ skipped = {}
    /\ exhausted = {}
    /\ outcomes = << >>
    /\ bcast = NoBroadcast
    /\ lastCall = NoCall
    /\ execs = NoExecs

SpecLoad == InitLoad /\ [][Next]_vars

----------------------------------------------------------------------------
(* The process killed while a release runs *)

\* the handler that runs next from this position ends in _save_state
SavesNext ==
    \/ pc = "retry"
    \/ pc = "net_failed"
    \/ pc = "network" /\ step_idx > Len(StepList)
    \/ pc = "loop" /\ net_idx > Len(NetworkList)

\* killed anywhere outside _save_state: the file is as the last save left it,
\* and what the process held in memory is gone
Crash ==
    /\ UNCHANGED <<verifierVars, commandVars>>
    /\ pc # "idle"
    /\ pc' = "idle"
    /\ result' = "killed"
    /\ summary' = EmptySummary
    /\ forge_args' = << >>
    /\ net_idx' = 1
    /\ step_idx' = 1
    /\ attempt' = 0
    /\ UNCHANGED <<file, env_version, faultsLeft, atInvoke, buildCount, called, skipped,
                   exhausted, outcomes, bcast, lastCall>>

\* killed inside _save_state, after open(state_file, 'w') emptied the file and
\* before json.dump wrote all of it (lines 284-285)
KilledInSave ==
    /\ UNCHANGED <<verifierVars, commandVars>>
    /\ SavesNext
    /\ file' = CorruptFile
    /\ called' = IF pc = "retry" THEN called \cup {<<CurNet, CurStep>>} ELSE called
    /\ pc' = "idle"
    /\ result' = "killed"
    /\ summary' = EmptySummary
    /\ forge_args' = << >>
    /\ net_idx' = 1
    /\ step_idx' = 1
    /\ attempt' = 0
    /\ UNCHANGED <<env_version, faultsLeft, atInvoke, buildCount, skipped, exhausted,
                   outcomes, bcast, lastCall>>

NextCrash ==
    \/ \E v \in Versions, fa \in OperatorArgs : Invoke(v, fa) /\ UNCHANGED execs
    \/ InvokeWithoutVersion /\ UNCHANGED execs
    \/ SkipNetwork /\ UNCHANGED execs
    \/ EnterNetwork /\ UNCHANGED execs
    \/ ReleaseSuccess /\ UNCHANGED execs
    \/ ReleaseAbort /\ UNCHANGED execs
    \/ SkipStep /\ UNCHANGED execs
    \/ FinishNetwork /\ UNCHANGED execs
    \/ BeginRetryDeployment /\ UNCHANGED execs
    \/ RetryDeploymentAttempt /\ UNCHANGED execs
    \/ BeginRetryVerification /\ UNCHANGED execs
    \/ RetryVerificationAttempt /\ UNCHANGED execs
    \/ Crash /\ UNCHANGED execs
    \/ KilledInSave /\ UNCHANGED execs

SpecCrash == Init /\ [][NextCrash]_vars

----------------------------------------------------------------------------
(* The release with its executor invocations counted *)

\* run_deploy or verify_contracts was called for the current network
Counted == execs' = [execs EXCEPT ![CurNet] = @ + 1]

\* one VERSION, no forge arguments from the operator and no broadcast files:
\* none of them decides how often an executor is invoked
LiveVersion == "v1"

NextLive ==
    \/ Invoke(LiveVersion, << >>) /\ execs' = NoExecs
    \/ InvokeWithoutVersion /\ execs' = NoExecs
    \/ SkipNetwork /\ UNCHANGED execs
    \/ EnterNetwork /\ UNCHANGED execs
    \/ ReleaseSuccess /\ UNCHANGED execs
    \/ ReleaseAbort /\ UNCHANGED execs
    \/ SkipStep /\ UNCHANGED execs
    \/ FinishNetwork /\ UNCHANGED execs
    \/ BeginRetryDeployment /\ ~bcast'.exists /\ UNCHANGED execs
    \/ RetryDeploymentAttempt /\ Counted
    \/ BeginRetryVerification /\ UNCHANGED execs
    \/ RetryVerificationAttempt /\ Counted

\* the interpreter runs the next statement, and every external call returns:
\* forge, the probes, time.sleep, and input() with a yes or a no
SpecLive == Init /\ [][NextLive]_vars /\ WF_vars(NextLive)

----------------------------------------------------------------------------
(* ContractVerifier.update_network_config *)

GapFloor == 10000

\* `gap > max(10000, median_block * 0.1)`
ExceedsThreshold(gap, median) == gap > GapFloor /\ 10 * gap > median

\* _calculate_start_block_with_outlier_detection; NullBlock for its None
CalculateStartBlock(blocks) ==
    IF Len(blocks) = 0 THEN NullBlock
    ELSE IF Len(blocks) = 1 THEN blocks[1]
    ELSE LET sorted == SortSeq(blocks, LAMBDA x, y : x < y)
             median == sorted[(Len(sorted) \div 2) + 1]
             large == {i \in 1..(Len(sorted) - 1) :
                          ExceedsThreshold(sorted[i + 1] - sorted[i], median)}
         IN IF Len(sorted) <= 2 THEN sorted[1]
            ELSE IF large # {}
            THEN sorted[(CHOOSE i \in large : \A j \in large : j <= i) + 1]
            ELSE sorted[1]

\* a merge that writes what the broadcast log gives and nothing else
MergeContract_NoPreserve(existing, entry, blog) ==
    IF entry.kind = "absent" \/ entry.address = NoAddress THEN existing
    ELSE RecordEntry(entry.address, blog[Lower(entry.address)].blockNumber,
                     blog[Lower(entry.address)].txHash)

\* a merge that writes the key it looked up in the broadcast log as the address
MergeContract_LowerAddress(existing, entry, blog) ==
    IF entry.kind = "absent" \/ entry.address = NoAddress THEN existing
    ELSE RecordEntry(Lower(entry.address), blog[Lower(entry.address)].blockNumber,
                     blog[Lower(entry.address)].txHash)

\* lines 320-360: one pass of the loop over the artifact's contracts
MergeContract(existing, entry, blog) ==
    IF entry.kind = "absent" \/ entry.address = NoAddress THEN existing
    ELSE LET found == blog[Lower(entry.address)]
             same_address == /\ existing.kind = "record"
                             /\ existing.address # NoAddress
                             /\ Lower(existing.address) = Lower(entry.address)
             block_out == IF found.blockNumber # NullBlock THEN found.blockNumber
                          ELSE IF same_address THEN existing.blockNumber ELSE NullBlock
             tx_out == IF found.txHash # NullTx THEN found.txHash
                       ELSE IF same_address THEN existing.txHash ELSE NullTx
         IN RecordEntry(entry.address, block_out, tx_out)

\* lines 399-414: the block numbers resolved for the artifact's contracts
DeployedBlockNumbers(artifact, blog) ==
    LET resolved(n) == /\ artifact.contracts[n].kind # "absent"
                       /\ artifact.contracts[n].address # NoAddress
                       /\ blog[Lower(artifact.contracts[n].address)].blockNumber # NullBlock
        names == SelectSeq(NameList, resolved)
    IN [i \in 1..Len(names) |-> blog[Lower(artifact.contracts[names[i]].address)].blockNumber]

\* lines 376-389: the deploymentInfo entry of the step, replaced by a deploy step
MergedInfo(info, key, ts, version) ==
    LET written == IF IsDeployStep(key)
                   THEN [k \in InfoKeys |->
                            IF k = key THEN FreshInfoEntry(GitCommit, ts, EnvVersion(version))
                            ELSE IF k = "deploy:adapters" THEN NoInfoEntry
                            ELSE info[k]]
                   ELSE info
    IN [written EXCEPT ![key].present = TRUE, ![key].version = EnvVersion(version)]

\* a start block taken from the broadcast log whenever it resolves one
StartBlock_ComputedFirst(artifact, blog, existing) ==
    LET blocks == DeployedBlockNumbers(artifact, blog)
    IN IF Len(blocks) > 0 THEN CalculateStartBlock(blocks)
       ELSE IF artifact.startBlock.kind # "none" THEN ToInt(artifact.startBlock)
       ELSE existing

\* lines 393-425: startBlock of the entry, `existing` being what the entry holds
StartBlock(artifact, blog, existing) ==
    IF artifact.startBlock.kind # "none" THEN ToInt(artifact.startBlock)
    ELSE LET blocks == DeployedBlockNumbers(artifact, blog)
         IN IF Len(blocks) > 0 THEN CalculateStartBlock(blocks) ELSE existing

\* config_data as it is handed to json.dump
MergedConfig(c, artifact, blog, step, version) ==
    LET key == DeploymentStep(step)
        info == MergedInfo(c.info, key, artifact.mtime, version)
    IN [status |-> "valid",
        contracts |-> [n \in ContractNames |->
                          MergeContract(c.contracts[n], artifact.contracts[n], blog)],
        info |-> [info EXCEPT ![key].startBlock = StartBlock(artifact, blog, info[key].startBlock)]]

\* an error path that leaves the file as the failed write left it
Restore_Nothing(current, bak) == current

\* `shutil.move(backup_config, network_config)`
Restore(current, bak) == bak.content

\* the whole of update_network_config, for one artifact, one broadcast log, one
\* command, one behaviour of the environment and one VERSION
UpdateNetworkConfig(artifact, blog, step, env, version) ==
    /\ merges < MaxMerges
    /\ LET bak == BackupOf(config)   \* line 287
       IN IF env = "git_failed"
          THEN \* lines 297-300
               /\ config' = config
               /\ backup' = NoBackup
               /\ mresult' = "failed"
          ELSE IF config.status # "valid" \/ artifact.status # "valid"
          THEN \* json.load raises JSONDecodeError: lines 438-444
               /\ config' = Restore(config, bak)
               /\ backup' = NoBackup
               /\ mresult' = "failed"
          ELSE IF artifact.startBlock.kind = "bad"
          THEN \* int() raises ValueError, which line 438 does not catch
               /\ config' = config
               /\ backup' = bak
               /\ mresult' = "raised"
          ELSE IF env = "write_failed"
          THEN \* open() or json.dump raises OSError: lines 438-444
               /\ config' = Restore(PartialConfig, bak)
               /\ backup' = NoBackup
               /\ mresult' = "failed"
          ELSE IF env = "killed_in_write"
          THEN \* the process ends between open(network_config, 'w') and the
               \* end of json.dump, lines 428-429
               /\ config' = PartialConfig
               /\ backup' = bak
               /\ mresult' = "killed"
          ELSE /\ config' = MergedConfig(config, artifact, blog, step, version)
               /\ backup' = NoBackup
               /\ mresult' = "ok"
    /\ merges' = merges + 1
    /\ lastMerge' = [pre |-> config, artifact |-> artifact, blog |-> blog, step |-> step,
                     env |-> env, version |-> version]
    /\ UNCHANGED <<releaseVars, commandVars>>

ReleaseIdle ==
    /\ file = AbsentFile
    /\ summary = EmptySummary
    /\ forge_args = << >>
    /\ env_version = NoValue
    /\ pc = "idle"
    /\ net_idx = 1
    /\ step_idx = 1
    /\ attempt = 0
    /\ result = "none"
    /\ faultsLeft = 0
    /\ atInvoke = NoInvoke
    /\ buildCount = 0
    /\ called = {}
    /\ skipped = {}
    /\ exhausted = {}
    /\ outcomes = << >>
    /\ bcast = NoBroadcast
    /\ lastCall = NoCall
    /\ execs = NoExecs

InitMerge ==
    /\ ReleaseIdle
    /\ CommandIdle
    /\ VerifyIdle
    /\ OutlierIdle
    /\ config \in InitialConfigs
    /\ backup = NoBackup
    /\ mresult = "none"
    /\ merges = 0
    /\ lastMerge = NoMerge

\* update_network_config.py, and the callers inside deploy.py and anvil.py; the
\* release never runs without VERSION, and a run the environment makes fail
\* discards what it took from the broadcast log and from VERSION
NextMerge ==
    \E artifact \in Artifacts, blog \in BroadcastInfos, step \in ArgsSteps,
       env \in MergeEnvs, version \in MergeVersions :
        /\ step = "deploy:testnets" => version # NoValue
        /\ env # "ok" => (blog = NoBroadcastInfo /\ version # NoValue)
        /\ UpdateNetworkConfig(artifact, blog, step, env, version)
        /\ UNCHANGED <<verifyVars, outlierVars>>

SpecMerge == InitMerge /\ [][NextMerge]_vars

----------------------------------------------------------------------------
(* ContractVerifier.verify_contracts *)

\* lines 233-253: `code != "0x" and code != "null"`, False on any exception
IsContractDeployed(r) ==
    IF r.kind = "raises" THEN FALSE
    ELSE LET code == IF r.kind = "missing" THEN StrCode("0x") ELSE r
         IN code # StrCode("0x") /\ code # StrCode("null")

\* lines 255-277
IsContractVerified(e) ==
    IF e.kind = "raises" THEN FALSE
    ELSE IF e.status # "1" THEN FALSE
    ELSE e.source # "" /\ e.source # NotVerifiedText /\ e.name # ""

\* lines 164-166: the keys of `contract_addresses`
ContractAddresses(artifact) ==
    {n \in ContractNames : artifact.contracts[n].kind # "absent"}

\* a check that looks at the code on chain only
AllPassed_DeployedOnly(artifact, rpc, explorer) ==
    \A n \in ContractAddresses(artifact) : IsContractDeployed(rpc[n])

\* lines 176-197: neither undeployed_contracts nor unverified_contracts
AllPassed(artifact, rpc, explorer) ==
    \A n \in ContractAddresses(artifact) :
        IsContractDeployed(rpc[n]) /\ IsContractVerified(explorer[n])

\* lines 518-530: the prompt loop; TRUE is "skip the update"
RECURSIVE Prompt(_)
Prompt(answers) ==
    IF answers = << >> THEN TRUE
    ELSE IF Head(answers) = Interrupt THEN TRUE
    ELSE LET choice == StripLower(Head(answers))
         IN IF choice \in {"y", "yes"} THEN FALSE
            ELSE IF choice \in {"n", "no", ""} THEN TRUE
            ELSE Prompt(Tail(answers))

\* the operator's answer taken the wrong way round
IsDeploymentOld_Inverted(artifact, answers) ==
    IF Clock - artifact.mtime < OneDay THEN FALSE ELSE ~Prompt(answers)

\* lines 503-530
IsDeploymentOld(artifact, answers) ==
    LET latest_file_age == Clock - artifact.mtime
    IN IF latest_file_age < OneDay THEN FALSE ELSE Prompt(answers)

\* args.step and VERSION of the release, whose verification step calls this
ReleaseStep == "deploy:testnets"
ReleaseVersion == "v1"

\* the whole of verify_contracts in the world of the behaviour
VerifyContracts ==
    /\ verifies < MaxVerifies
    /\ verifies' = verifies + 1
    /\ UNCHANGED <<world, outlierVars>>
    /\ LET a == world.artifact
           checked == a.status = "valid" /\ ~world.dry_run
           deployed == [n \in ContractNames |->
                           /\ checked
                           /\ n \in ContractAddresses(a)
                           /\ IsContractDeployed(world.rpc[n])]
           verified == [n \in ContractNames |->
                           /\ checked
                           /\ n \in ContractAddresses(a)
                           /\ IsContractVerified(world.explorer[n])]
           record(m) == [pre |-> config, deployed |-> deployed, verified |-> verified,
                         merged |-> m]
           returns(v) == /\ vresult' = v
                         /\ lastVerify' = record(FALSE)
                         /\ UNCHANGED <<mergeVars, releaseVars, commandVars>>
       IN IF a.status = "absent" THEN returns("false")          \* lines 155-157
          ELSE IF world.dry_run THEN returns("true")             \* lines 209-212
          ELSE IF a.status # "valid" THEN returns("raised")      \* json.load, line 165
          ELSE IF ContractAddresses(a) = {} THEN returns("false")   \* lines 168-170
          ELSE IF ~AllPassed(a, world.rpc, world.explorer)
          THEN returns("false")                                  \* lines 194-196
          ELSE IF IsDeploymentOld(a, world.answers)
          THEN returns("true")                                   \* lines 202-204
          ELSE \* lines 205-206 and 212: the merge, its return value dropped
               /\ \E blog \in BroadcastInfos :
                      UpdateNetworkConfig(a, blog, ReleaseStep, world.env, ReleaseVersion)
               /\ vresult' = IF mresult' = "raised" THEN "raised" ELSE "true"
               /\ lastVerify' = record(TRUE)

InitVerify ==
    /\ ReleaseIdle
    /\ CommandIdle
    /\ OutlierIdle
    /\ config \in InitialConfigs
    /\ backup = NoBackup
    /\ mresult = "none"
    /\ merges = 0
    /\ lastMerge = NoMerge
    /\ world \in Worlds
    /\ vresult = "none"
    /\ verifies = 0
    /\ lastVerify = NoVerify

SpecVerify == InitVerify /\ [][VerifyContracts]_vars

----------------------------------------------------------------------------
(* _calculate_start_block_with_outlier_detection on its own *)

\* block numbers of a leftover contract and of two deployments
BlockValues == {42, 50000, 100000, 100050, 100051, 100052, 300000, 325000}

\* how many block numbers one call is given
MaxBlocks == 4

BlockLists == UNION {[1..n -> BlockValues] : n \in 0..MaxBlocks}

InitOutlier ==
    /\ ReleaseIdle
    /\ CommandIdle
    /\ MergeIdle
    /\ VerifyIdle
    /\ block_numbers \in BlockLists
    /\ start_block = NotCalled

OutlierDetection ==
    /\ ~start_block.called
    /\ start_block' = [called |-> TRUE, value |-> CalculateStartBlock(block_numbers)]
    /\ UNCHANGED <<block_numbers, releaseVars, mergeVars, verifyVars, commandVars>>

SpecOutlier == InitOutlier /\ [][OutlierDetection]_vars

----------------------------------------------------------------------------
(* Two invocations of the release against one state file *)

\* nothing in release.py locks release_state.json: each invocation loads it
\* once (line 49) and from then on writes its own in-memory summary over it.
\* Both invocations run the same VERSION on a file system that does not fail;
\* each is started once, at any moment before, while or after the other runs;
\* a retry loop is one step, ending in its success or in its exhaustion.

RaceNet(p) == NetworkList[procs[p].net_idx]
RaceStep(p) == StepList[procs[p].step_idx]

\* flags the file records as done that the summary `s` written over it lacks
Overwritten(f, s) ==
    \E n \in DOMAIN LoadState(f).networks, st \in Steps :
        /\ LoadState(f).networks[n][st]
        /\ ~(n \in DOMAIN s.networks /\ s.networks[n][st])

\* _save_state of invocation p
RaceSave(s) ==
    /\ file' = SaveState(file, s, "ok")
    /\ race' = [race EXCEPT !.lost = @ \/ Overwritten(file, s)]

\* lines 48-76
RaceInvoke(p) ==
    /\ procs[p].pc = "idle"
    /\ procs[p].result = "none"
    /\ LET loaded == LoadState(file)
           changed == VersionChanged(loaded, ReleaseVersion)
           kept == IF changed THEN EmptySummary ELSE loaded
       IN \E buildOk \in (IF NeedsBuild(kept) THEN BOOLEAN ELSE {TRUE}) :
            /\ file' = IF changed THEN ClearState(file) ELSE file
            /\ procs' = [procs EXCEPT ![p] =
                   IF buildOk
                   THEN [pc |-> "loop",
                         summary |-> IF kept.version = NoValue
                                     THEN InitialSummary(ReleaseVersion) ELSE kept,
                         net_idx |-> 1, step_idx |-> 1, result |-> "running"]
                   ELSE [IdleInvocation EXCEPT !.result = "error"]]
    /\ race' = [race EXCEPT !.overlapped = @ \/ \E q \in Invocations \ {p} : procs[q].pc # "idle"]

\* lines 81-85
RaceSkipNetwork(p) ==
    /\ procs[p].pc = "loop"
    /\ procs[p].net_idx <= Len(NetworkList)
    /\ IsNetworkComplete(procs[p].summary, RaceNet(p))
    /\ procs' = [procs EXCEPT ![p].net_idx = @ + 1]
    /\ UNCHANGED <<file, race>>

\* lines 89, 112-130
RaceEnterNetwork(p) ==
    /\ procs[p].pc = "loop"
    /\ procs[p].net_idx <= Len(NetworkList)
    /\ ~IsNetworkComplete(procs[p].summary, RaceNet(p))
    /\ procs' = [procs EXCEPT ![p].summary = WithNetwork(@, RaceNet(p)),
                              ![p].pc = "network", ![p].step_idx = 1]
    /\ UNCHANGED <<file, race>>

\* the `else` of a step block
RaceSkipStep(p) ==
    /\ procs[p].pc = "network"
    /\ procs[p].step_idx <= Len(StepList)
    /\ ~StepPending(procs[p].summary, RaceNet(p), RaceStep(p))
    /\ procs' = [procs EXCEPT ![p].step_idx = @ + 1]
    /\ UNCHANGED <<file, race>>

\* a step block with its retry helper: the executor succeeds within the attempts
\* (flag set and saved, lines 220-224 and 254-258) or never does (the block's
\* `self._save_state(); return False`)
RaceRunStep(p) ==
    /\ procs[p].pc = "network"
    /\ procs[p].step_idx <= Len(StepList)
    /\ StepPending(procs[p].summary, RaceNet(p), RaceStep(p))
    /\ \E ok \in BOOLEAN :
         IF ok
         THEN LET marked == MarkStep(procs[p].summary, RaceNet(p), RaceStep(p))
                  before == race.runs[RaceNet(p), RaceStep(p)]
              IN /\ procs' = [procs EXCEPT ![p].summary = marked, ![p].step_idx = @ + 1]
                 /\ file' = SaveState(file, marked, "ok")
                 /\ race' = [race EXCEPT
                        !.runs[RaceNet(p), RaceStep(p)] = IF before < 2 THEN before + 1 ELSE before,
                        !.lost = @ \/ Overwritten(file, marked)]
         ELSE /\ procs' = [procs EXCEPT ![p].pc = "net_failed"]
              /\ RaceSave(procs[p].summary)

\* lines 168-170
RaceFinishNetwork(p) ==
    /\ procs[p].pc = "network"
    /\ procs[p].step_idx > Len(StepList)
    /\ RaceSave(procs[p].summary)
    /\ procs' = [procs EXCEPT ![p].pc = "loop", ![p].net_idx = @ + 1]

\* lines 89-93
RaceAbort(p) ==
    /\ procs[p].pc = "net_failed"
    /\ LET s == [procs[p].summary EXCEPT !.failed_at = RaceNet(p)]
       IN /\ RaceSave(s)
          /\ procs' = [procs EXCEPT ![p] = [IdleInvocation EXCEPT !.result = "failure"]]

\* lines 95-100
RaceSuccess(p) ==
    /\ procs[p].pc = "loop"
    /\ procs[p].net_idx > Len(NetworkList)
    /\ LET s == [procs[p].summary EXCEPT !.completed_at = TRUE]
       IN /\ RaceSave(s)
          /\ procs' = [procs EXCEPT ![p] = [IdleInvocation EXCEPT !.result = "success"]]

RaceFrame ==
    UNCHANGED <<summary, forge_args, env_version, pc, net_idx, step_idx, attempt,
                result, faultsLeft, atInvoke, buildCount, called, skipped, exhausted,
                outcomes, bcast, lastCall, execs, verifierVars, mainVars, anvilVars>>

NextRace ==
    \/ \E p \in Invocations : RaceInvoke(p) /\ RaceFrame
    \/ \E p \in Invocations : RaceSkipNetwork(p) /\ RaceFrame
    \/ \E p \in Invocations : RaceEnterNetwork(p) /\ RaceFrame
    \/ \E p \in Invocations : RaceSkipStep(p) /\ RaceFrame
    \/ \E p \in Invocations : RaceRunStep(p) /\ RaceFrame
    \/ \E p \in Invocations : RaceFinishNetwork(p) /\ RaceFrame
    \/ \E p \in Invocations : RaceAbort(p) /\ RaceFrame
    \/ \E p \in Invocations : RaceSuccess(p) /\ RaceFrame

SpecRace == Init /\ [][NextRace]_vars

----------------------------------------------------------------------------
(* deploy.py main for the commands of one network *)

\* the command line is one validate_arguments and validate_network accept; the
\* returns of the runner, of the verifier and of config_has_latest_contracts
\* are drawn with it

\* `retries = 3` of the catapulta branch
CatapultaRetries == 3

\* "verify:protocol" is what the parser accepts for the verification command
MainSteps == {"deploy:protocol", "deploy:adapters", "wire", "verify:protocol"}

\* verify_contracts returns True or False, or raises (json.load, a failed merge)
VerifyReturns == {"true", "false", "raised"}

Clis ==
    [step : MainSteps, forge_args : OperatorArgs, catapulta : BOOLEAN,
     is_testnet : BOOLEAN, has_latest : BOOLEAN, deploy : BOOLEAN,
     verify : [1..CatapultaRetries -> VerifyReturns], test_data : BOOLEAN]

\* sys.exit(code): SystemExit is not an Exception, the handler at line 334 lets it by
SysExit(code, scripts) ==
    [done |-> TRUE, code |-> code, scripts |-> scripts, raised |-> "SystemExit"]

\* `except Exception` of line 334: traceback, sys.exit(1)
Caught(what, scripts) ==
    [done |-> TRUE, code |-> 1, scripts |-> scripts, raised |-> what]

\* main returned: the interpreter exits with 0
Returned(scripts) ==
    [done |-> TRUE, code |-> 0, scripts |-> scripts, raised |-> "none"]

\* lines 320-332: "Handle errors"; a failed runner with verify_success still
\* True only prints
HandleErrors(verify_success, deploy_success, scripts) ==
    IF ~verify_success THEN SysExit(1, scripts) ELSE Returned(scripts)

\* lines 206-216: the loop `while not verify_success and retries > 0`
RECURSIVE CatapultaLoop(_, _)
CatapultaLoop(results, retries) ==
    IF retries = 0 THEN "false"
    ELSE LET r == results[CatapultaRetries - retries + 1]
         IN IF r = "false" THEN CatapultaLoop(results, retries - 1) ELSE r

WithoutResume(fa) == SelectSeq(fa, LAMBDA a : a # ResumeFlag)

RunCall(script, fa) == [script |-> script, forge_args |-> fa]

\* lines 186-235
DeployProtocol(c) ==
    LET resume == Contains(c.forge_args, ResumeFlag)
        already_deployed == resume /\ c.has_latest
        deploy_success == already_deployed \/ c.deploy
        s1 == IF already_deployed THEN << >>
              ELSE <<RunCall("LaunchDeployer", c.forge_args)>>
        verified == IF already_deployed THEN "true"
                    ELSE IF c.catapulta THEN CatapultaLoop(c.verify, CatapultaRetries)
                    ELSE c.verify[1]
        verify_success == verified = "true"
        saved == resume /\ ~already_deployed
        s2 == Append(s1, RunCall("TestData",
                         IF saved THEN WithoutResume(c.forge_args) ELSE c.forge_args))
    IN IF verified = "raised" THEN Caught("verify_contracts", s1)
       ELSE IF c.catapulta /\ ~already_deployed /\ ~verify_success THEN SysExit(1, s1)
       ELSE IF verify_success /\ c.is_testnet
       THEN IF ~c.test_data THEN SysExit(1, s2)
            \* line 235 reads original_forge_args, bound at line 229 only
            ELSE IF ~saved THEN Caught("UnboundLocalError", s2)
            ELSE HandleErrors(verify_success, deploy_success, s2)
       ELSE HandleErrors(verify_success, deploy_success, s1)

\* lines 241-247
DeployAdapters(c) ==
    LET s1 == <<RunCall("OnlyAdapters", c.forge_args)>>
    IN IF ~c.deploy THEN HandleErrors(TRUE, FALSE, s1)
       ELSE IF c.verify[1] = "raised" THEN Caught("verify_contracts", s1)
       ELSE HandleErrors(c.verify[1] = "true", TRUE, s1)

\* lines 255-257
Wire(c) == HandleErrors(TRUE, c.deploy, <<RunCall("WireAdapters", c.forge_args)>>)

\* lines 183-184 and the elif chain, whose branches test "verify" and so are
\* passed by for "verify:protocol"
Main ==
    /\ ~proc.done
    /\ proc' = CASE cli.step = "deploy:protocol" -> DeployProtocol(cli)
                 [] cli.step = "deploy:adapters" -> DeployAdapters(cli)
                 [] cli.step = "wire"            -> Wire(cli)
                 [] OTHER                        -> HandleErrors(TRUE, TRUE, << >>)
    /\ UNCHANGED <<cli, releaseVars, verifierVars, raceVars, anvilVars>>

InitMain ==
    /\ ReleaseIdle
    /\ VerifierIdle
    /\ RaceIdle
    /\ AnvilIdle
    /\ cli \in Clis
    /\ proc = Running

SpecMain == InitMain /\ [][Main]_vars

----------------------------------------------------------------------------
(* AnvilManager.deploy: two local forks *)

SepoliaFork == "sepolia"
ArbitrumFork == "arbitrum-sepolia"

\* what the runner returns for the three scripts of a fork and whether the two
\* merges of _deploy_fork go through; WireAdapters may also raise
ForkOutcomes ==
    [launch : BOOLEAN, merge : BOOLEAN, test_data : BOOLEAN, merge_test : BOOLEAN,
     wire : {"ok", "failed", "raised"}]

ForkInputs == [setup : BOOLEAN, sepolia : ForkOutcomes, arbitrum : ForkOutcomes]

Ran(fork, what) == [fork |-> fork, step |-> what]

\* lines 194-222; a merge that raises is caught and only warned about
DeployFork(fork, o) ==
    LET t1 == <<Ran(fork, "LaunchDeployer")>>
        t2 == Append(t1, Ran(fork, IF o.merge THEN "merge" ELSE "merge_failed"))
        t3 == Append(t2, Ran(fork, "TestData"))
        t4 == Append(t3, Ran(fork, IF o.merge_test THEN "merge" ELSE "merge_failed"))
    IN IF ~o.launch THEN [ok |-> FALSE, trace |-> t1]
       ELSE IF ~o.test_data THEN [ok |-> FALSE, trace |-> t3]
       ELSE [ok |-> TRUE, trace |-> t4]

\* lines 129-192.  Line 159 reads the name `verifier`, which deploy never binds
\* and the module does not define (line 21 imports ContractVerifier only): the
\* NameError leaves deploy before the Arbitrum fork is created, so nothing of
\* lines 161-192 ever runs
AnvilDeploy ==
    /\ ~anvil.done
    /\ LET sep == DeployFork(SepoliaFork, forks.sepolia)
       IN anvil' =
            IF ~forks.setup                \* _setup_anvil: "Anvil failed to start"
            THEN [done |-> TRUE, returned |-> "raised", trace |-> << >>]
            ELSE IF ~sep.ok
            THEN [done |-> TRUE, returned |-> "false", trace |-> sep.trace]
            ELSE [done |-> TRUE, returned |-> "raised", trace |-> sep.trace]
    /\ UNCHANGED <<forks, releaseVars, verifierVars, raceVars, mainVars>>

InitAnvil ==
    /\ ReleaseIdle
    /\ VerifierIdle
    /\ RaceIdle
    /\ MainIdle
    /\ forks \in ForkInputs
    /\ anvil = NotDeployed

SpecAnvil == InitAnvil /\ [][AnvilDeploy]_vars

----------------------------------------------------------------------------
(* Properties *)

StepDone(s, n, step) == n \in DOMAIN s.networks /\ s.networks[n][step]

NetIndex(n) == CHOOSE i \in 1..Len(NetworkList) : NetworkList[i] = n
StepIndex(step) == CHOOSE i \in 1..Len(StepList) : StepList[i] = step

Count(seq, x) == Cardinality({i \in 1..Len(seq) : seq[i] = x})

Monotone(st) ==
    /\ st.verification => st.protocol
    /\ st.wiring => st.verification
    /\ st.test_data => st.wiring

MonotoneSummary(s) == \A n \in DOMAIN s.networks : Monotone(s.networks[n])

AllComplete(s) == \A n \in Networks : IsNetworkComplete(s, n)

\* the invocation found a readable state file written under the version it runs with
SameVersionResume ==
    /\ atInvoke.file.status = "valid"
    /\ atInvoke.version # NoValue
    /\ atInvoke.file.data.version = atInvoke.version

\* the invocation found a readable state file written under another version
VersionDiffers ==
    /\ atInvoke.file.status = "valid"
    /\ atInvoke.version # NoValue
    /\ atInvoke.file.data.version # NoValue
    /\ atInvoke.file.data.version # atInvoke.version

FirstPending(s, n) ==
    CHOOSE i \in 1..Len(StepList) :
        /\ ~StepDone(s, n, StepList[i])
        /\ \A j \in 1..(i - 1) : StepDone(s, n, StepList[j])

Position(n, step) == (NetIndex(n) - 1) * Len(StepList) + StepIndex(step)

\* C1: starting from an absent state file, in every reachable state no step flag
\* of a network is true while an earlier flag is false, in deployment_summary
\* and in the state file.
C1_MonotonicProgress ==
    /\ MonotoneSummary(summary)
    /\ file.status = "valid" => MonotoneSummary(file.data)

\* C1 witness: after a version-change reset, the file holds a network stopped
\* between verification and wiring while an earlier network is complete.
C1_Witness ==
    /\ VersionDiffers
    /\ file.status = "valid"
    /\ IsNetworkComplete(file.data, "sepolia")
    /\ StepDone(file.data, "base-sepolia", "verification")
    /\ ~StepDone(file.data, "base-sepolia", "wiring")
    /\ file.data.failed_at = "base-sepolia"

\* C2: an invocation that resumes a state of its own version invokes no executor
\* for a step the file records as done nor for a complete network; when the file
\* records a failure at network B, whose first pending step is K, every executor
\* call is at or after (B, K), and the first one is (B, K).
C2_ResumeCorrectness ==
    SameVersionResume =>
        LET old == atInvoke.file.data
            B == old.failed_at
        IN /\ \A c \in called : ~StepDone(old, c[1], c[2])
           /\ \A c \in called : ~IsNetworkComplete(old, c[1])
           /\ (B # NoValue /\ ~IsNetworkComplete(old, B)) =>
                 LET K == StepList[FirstPending(old, B)]
                 IN /\ \A c \in called : Position(c[1], c[2]) >= Position(B, K)
                    /\ called # {} => <<B, K>> \in called

\* C2 witness: base-sepolia failed at wiring with sepolia complete; the resumed
\* invocation has run wiring and test data of base-sepolia and gone on to the
\* next network.
C2_Witness ==
    /\ SameVersionResume
    /\ atInvoke.file.data.failed_at = "base-sepolia"
    /\ IsNetworkComplete(atInvoke.file.data, "sepolia")
    /\ StepDone(atInvoke.file.data, "base-sepolia", "verification")
    /\ ~StepDone(atInvoke.file.data, "base-sepolia", "wiring")
    /\ called = {<<"base-sepolia", "wiring">>, <<"base-sepolia", "test_data">>,
                 <<"arbitrum-sepolia", "protocol">>}

\* C3: when the state file records every network complete under the same version,
\* the invocation builds nothing, invokes no executor, leaves every step flag as
\* it was in memory and on disk, and ends in success.
C3_Idempotence ==
    (SameVersionResume /\ AllComplete(atInvoke.file.data)) =>
        /\ buildCount = 0
        /\ called = {}
        /\ exhausted = {}
        /\ summary.networks = atInvoke.file.data.networks
        /\ file.status = "valid"
        /\ file.data.networks = atInvoke.file.data.networks
        /\ result \in {"running", "success"}
        /\ pc = "idle" => result = "success"

\* C3 witness: such an invocation has returned, having skipped all twelve steps.
C3_Witness ==
    /\ SameVersionResume
    /\ AllComplete(atInvoke.file.data)
    /\ pc = "idle"
    /\ result = "success"
    /\ skipped = Networks \X Steps

\* C4: when the state file holds another version, the file is gone and no flag is
\* set before the first executor call, which is protocol on the first network;
\* no network entry is carried over, no step is skipped, and the state in memory
\* and any state written carries the new version.
C4_VersionChangeReset ==
    VersionDiffers =>
        /\ skipped = {}
        /\ called = {} =>
              /\ file.status = "absent"
              /\ \A n \in DOMAIN summary.networks : summary.networks[n] = NewStatus
        /\ \A n \in DOMAIN summary.networks : NetIndex(n) <= net_idx
        /\ result # "error" => summary.version = atInvoke.version
        /\ file.status = "valid" => file.data.version = atInvoke.version
        /\ (Cardinality(called) = 1 /\ lastCall.attempt = 1) =>
              /\ lastCall.network = NetworkList[1]
              /\ lastCall.step = StepList[1]
              /\ lastCall.fileAtCall.status = "absent"

\* C4 witness: the old version had completed sepolia; under the new version
\* sepolia's protocol and verification have been run again.
C4_Witness ==
    /\ VersionDiffers
    /\ IsNetworkComplete(atInvoke.file.data, "sepolia")
    /\ called = {<<"sepolia", "protocol">>, <<"sepolia", "verification">>}
    /\ file.status = "valid"
    /\ file.data.version = atInvoke.version

\* C5: once a step's retries are exhausted the network orchestrator has returned:
\* no executor of a later step of that network was invoked, and the state file
\* shows exactly the steps before the failed one as done.
C5_FailFast ==
    \A e \in exhausted :
        /\ pc \in {"net_failed", "idle"}
        /\ \A c \in called : c[1] = e[1] => StepIndex(c[2]) <= StepIndex(e[2])
        /\ file.status = "valid"
        /\ e[1] \in DOMAIN file.data.networks
        /\ \A i \in 1..Len(StepList) :
              file.data.networks[e[1]][StepList[i]] = (i < StepIndex(e[2]))

\* C5 witness: _deploy_network has just returned False for a network whose wiring
\* ran out of retries.
C5_Witness ==
    /\ pc = "net_failed"
    /\ exhausted = {<<"base-sepolia", "wiring">>}

C7_RetryBound ==
    /\ Len(outcomes) <= Retries
    /\ \A i \in 1..(Len(outcomes) - 1) : ~outcomes[i]
    /\ pc = "retry" => (attempt < Retries /\ Len(outcomes) = attempt)
    /\ exhausted # {} =>
          /\ Len(outcomes) = Retries
          /\ \A i \in 1..Len(outcomes) : ~outcomes[i]
    /\ (Len(outcomes) > 0 /\ outcomes[Len(outcomes)]) =>
          /\ StepDone(summary, lastCall.network, lastCall.step)
          /\ \/ /\ pc = "network"
                /\ net_idx = NetIndex(lastCall.network)
                /\ step_idx = StepIndex(lastCall.step) + 1
             \/ /\ lastCall.step = StepList[Len(StepList)]
                /\ pc \in {"loop", "network", "idle"}
                /\ net_idx > NetIndex(lastCall.network)

\* C7 witness: verification failed twice and succeeded on the third attempt, and
\* the network is at wiring.
C7_Witness ==
    /\ outcomes = <<FALSE, FALSE, TRUE>>
    /\ lastCall.step = "verification"
    /\ pc = "network"
    /\ CurStep = "wiring"

\* C8: every command of a deployment step carries the resume marker at most
\* once, and the command of an attempt that follows a failed attempt carries it.
C8_ResumeAfterFailure ==
    lastCall.step \in DeploySteps =>
        /\ \A i \in 1..Len(lastCall.cmds) : Count(lastCall.cmds[i], ResumeFlag) <= 1
        /\ lastCall.afterFailure => Contains(lastCall.cmds[1], ResumeFlag)

\* C8 witness: a third attempt, in an invocation the operator started without the
\* marker and whose step found no recent broadcast file.
C8_Witness ==
    /\ lastCall.step \in DeploySteps
    /\ lastCall.attempt = 3
    /\ lastCall.afterFailure
    /\ atInvoke.args = << >>
    /\ ~lastCall.broadcast.exists
    /\ called = {<<"sepolia", "protocol">>}

C10_PersistBeforeProceeding ==
    (lastCall.network # NoValue /\ StepIndex(lastCall.step) > 1) =>
        /\ lastCall.fileAtCall.status = "valid"
        /\ StepDone(lastCall.fileAtCall.data, lastCall.network,
                    StepList[StepIndex(lastCall.step) - 1])

\* some step flag is recorded in s
HasProgress(s) == \E n \in DOMAIN s.networks : \E st \in Steps : s.networks[n][st]

\* every step flag recorded in old is recorded in new
KeepsProgress(old, new) ==
    \A n \in DOMAIN old.networks : \A st \in Steps :
        old.networks[n][st] => StepDone(new, n, st)

\* C11: with the process killed at any point of a run, the state file is never
\* left unparsable, a step whose executor last returned failure is not recorded
\* as done in it, and after a kill it still records every step that the file
\* the invocation loaded recorded for the same version.
C11_CrashInvariant ==
    /\ file.status # "corrupt"
    /\ (file.status = "valid" /\ lastCall.network # NoValue /\ ~lastCall.success) =>
          ~StepDone(file.data, lastCall.network, lastCall.step)
    /\ (result = "killed" /\ SameVersionResume) =>
          /\ file.status = "valid"
          /\ KeepsProgress(atInvoke.file.data, file.data)

\* C12: an invocation that finds the state file absent or unparsable does not
\* end in an error of the load; it builds once, skips nothing and its first
\* executor call is protocol on the first network.
C12_LoadDegrades ==
    (atInvoke.version # NoValue /\ atInvoke.file.status # "valid") =>
        /\ result # "load_error"
        /\ buildCount = 1
        /\ skipped = {}
        /\ called # {} => <<NetworkList[1], StepList[1]>> \in called

\* C13: every change of the state file leaves it holding a complete state: the
\* one just saved, or no file at all when clear_state removed it at the start of
\* an invocation; it never becomes empty or truncated.
C13_AtomicSave ==
    [][file' # file =>
          \/ file'.status = "valid"
          \/ file'.status = "absent" /\ pc = "idle"]_vars

\* C14: every executor call of an invocation is for a network all of whose
\* predecessors in the list have their four step flags set, and the network being
\* processed is in the same position.
C14_StrictNetworkOrder ==
    /\ \A c \in called : \A i \in 1..(NetIndex(c[1]) - 1) : \A st \in Steps :
          StepDone(summary, NetworkList[i], st)
    /\ pc \in {"network", "retry", "net_failed"} =>
          \A i \in 1..(net_idx - 1) : \A st \in Steps :
              StepDone(summary, NetworkList[i], st)
    /\ \A c \in called : NetIndex(c[1]) <= net_idx

\* C14 witness: a resumed invocation that skipped sepolia, finished base-sepolia
\* and is calling executors of arbitrum-sepolia.
C14_Witness ==
    /\ <<"sepolia", "protocol">> \in skipped
    /\ <<"base-sepolia", "test_data">> \in called
    /\ lastCall.network = "arbitrum-sepolia"
    /\ lastCall.step = "wiring"

\* C15: completed_at is set, in memory and in the state file, only with all four
\* flags of all three networks set; an invocation that returned success has set
\* and saved it, and one that returned failure with a version has left a network
\* incomplete and completed_at unset.
C15_CompletedAtMeansComplete ==
    /\ summary.completed_at => AllComplete(summary)
    /\ (file.status = "valid" /\ file.data.completed_at) => AllComplete(file.data)
    /\ result = "success" =>
          /\ AllComplete(summary)
          /\ summary.completed_at
          /\ file.status = "valid"
          /\ file.data.completed_at
          /\ file.data.networks = summary.networks
    /\ (pc = "idle" /\ result = "failure" /\ env_version # NoValue) =>
          /\ ~AllComplete(summary)
          /\ ~summary.completed_at
          /\ ~file.data.completed_at

\* C15 witness: a release that failed at base-sepolia was resumed and has
\* returned success with completed_at saved.
C15_Witness ==
    /\ SameVersionResume
    /\ atInvoke.file.data.failed_at = "base-sepolia"
    /\ ~AllComplete(atInvoke.file.data)
    /\ pc = "idle"
    /\ result = "success"
    /\ file.data.completed_at

\* C16: an invocation builds at most once; it builds only when the state it
\* keeps after load and version check has no network entry, never when it
\* resumes recorded progress of its own version; and an invocation that started
\* from such a fresh state has built before any executor was called.
C16_OneTimeBuild ==
    /\ buildCount <= 1
    /\ buildCount = 1 =>
          \/ atInvoke.file.status # "valid"
          \/ atInvoke.versionChanged
          \/ DOMAIN atInvoke.file.data.networks = {}
    /\ (SameVersionResume /\ HasProgress(atInvoke.file.data)) => buildCount = 0
    /\ (called # {} /\ (atInvoke.file.status # "valid" \/ atInvoke.versionChanged)) =>
          buildCount = 1

\* C16 witness: after a version-change reset of a state with progress, the
\* build has run and the first executor has been called.
C16_Witness ==
    /\ VersionDiffers
    /\ HasProgress(atInvoke.file.data)
    /\ buildCount = 1
    /\ called = {<<"sepolia", "protocol">>}

\* the config update_network_config had computed for its last run
LastMerged ==
    MergedConfig(lastMerge.pre, lastMerge.artifact, lastMerge.blog, lastMerge.step,
                 lastMerge.version)

\* C17: after a successful merge, for every contract name whose record keeps its
\* address up to letter case, a block number or transaction hash that was
\* recorded is still recorded, and when the broadcast log resolves nothing for
\* the artifact's address both fields are what they were.
C17_MergeMonotonicity ==
    mresult = "ok" =>
        \A n \in ContractNames :
            LET old == lastMerge.pre.contracts[n]
                new == config.contracts[n]
                entry == lastMerge.artifact.contracts[n]
            IN (/\ old.kind = "record"
                /\ new.kind = "record"
                /\ Lower(old.address) = Lower(new.address)) =>
                  /\ old.blockNumber # NullBlock => new.blockNumber # NullBlock
                  /\ old.txHash # NullTx => new.txHash # NullTx
                  /\ (/\ entry.kind # "absent"
                      /\ entry.address # NoAddress
                      /\ lastMerge.blog[Lower(entry.address)] = Unresolved) =>
                        /\ new.blockNumber = old.blockNumber
                        /\ new.txHash = old.txHash

\* C17 witness: the config held gateway at 0xAA with block 900; an artifact that
\* spells the address 0xaa, with nothing resolved for it in the broadcast log,
\* was merged and block and hash are still there.
C17_Witness ==
    /\ mresult = "ok"
    /\ lastMerge.pre.contracts["gateway"] = RecordEntry("0xAA", 900, "0x9a")
    /\ lastMerge.artifact.contracts["gateway"] = StringEntry("0xaa")
    /\ lastMerge.blog["0xaa"] = Unresolved
    /\ config.contracts["gateway"] = RecordEntry("0xaa", 900, "0x9a")

\* C18: a run of update_network_config that cannot succeed (git fails, the config
\* or the artifact does not parse, the start block cannot be computed, the write
\* fails) does not end in success, and a run that ended in failure has left the
\* config file with the content it had when the run began.
C18_MergeFailureRestores ==
    merges > 0 =>
        /\ (\/ lastMerge.env \in {"git_failed", "write_failed"}
            \/ lastMerge.pre.status # "valid"
            \/ lastMerge.artifact.status # "valid"
            \/ lastMerge.artifact.startBlock.kind = "bad") => mresult \in {"failed", "raised"}
        /\ mresult \in {"failed", "raised"} => config = lastMerge.pre

\* C18 witness: the write of a merge that would have changed gateway's record
\* failed, and the file holds the earlier record again, the backup gone.
C18_Witness ==
    /\ lastMerge.env = "write_failed"
    /\ mresult = "failed"
    /\ lastMerge.pre.contracts["gateway"] = RecordEntry("0xAA", 900, "0x9a")
    /\ lastMerge.artifact.status = "valid"
    /\ lastMerge.artifact.contracts["gateway"] = RecordEntry("0xbb", NullBlock, NullTx)
    /\ config = lastMerge.pre
    /\ ~backup.exists

\* C19: the network config file is never cut off: after any run of
\* update_network_config it holds the content it had before the run, or the
\* complete merged content.
C19_NeverPartial ==
    /\ config.status # "partial"
    /\ merges > 0 => (config = lastMerge.pre \/ config = LastMerged)

\* C20: after a successful merge of an artifact that carries deploymentStartBlock,
\* the startBlock of the step's deploymentInfo entry is that number.
C20_ExplicitStartBlockWins ==
    (mresult = "ok" /\ lastMerge.artifact.startBlock.kind \in {"int", "str"}) =>
        LET entry == config.info[DeploymentStep(lastMerge.step)]
        IN /\ entry.present
           /\ entry.startBlock = lastMerge.artifact.startBlock.n

\* C20 witness: the artifact says 1500 while the broadcast log resolves block
\* 1000 for its contract and the entry held 900.
C20_Witness ==
    /\ mresult = "ok"
    /\ lastMerge.step = "deploy:testnets"
    /\ lastMerge.artifact.startBlock = [kind |-> "int", n |-> 1500]
    /\ lastMerge.blog["0xaa"].blockNumber = 1000
    /\ lastMerge.pre.info["deploy:full"].startBlock = 900
    /\ config.info["deploy:full"].startBlock = 1500

\* C21: after a successful merge of an artifact without deploymentStartBlock,
\* when the broadcast log resolves no block number for any contract of the
\* artifact, the startBlock of the step's deploymentInfo entry is the one that
\* was recorded before the merge, under every step name.
C21_PreviousStartBlockPreserved ==
    (/\ mresult = "ok"
     /\ lastMerge.artifact.startBlock.kind = "none"
     /\ Len(DeployedBlockNumbers(lastMerge.artifact, lastMerge.blog)) = 0) =>
        config.info[DeploymentStep(lastMerge.step)].startBlock
            = lastMerge.pre.info[DeploymentStep(lastMerge.step)].startBlock

\* twice the median of a sorted list
TwiceMedian(sorted) ==
    IF Len(sorted) % 2 = 1 THEN 2 * sorted[(Len(sorted) + 1) \div 2]
    ELSE sorted[Len(sorted) \div 2] + sorted[(Len(sorted) \div 2) + 1]

\* the start block section 4.5a describes: the element after the last gap that
\* exceeds max(10000, 10% of the median), else the minimum
DescribedStartBlock(blocks) ==
    LET sorted == SortSeq(blocks, LAMBDA x, y : x < y)
        large == {i \in 1..(Len(sorted) - 1) :
                     /\ sorted[i + 1] - sorted[i] > GapFloor
                     /\ 20 * (sorted[i + 1] - sorted[i]) > TwiceMedian(sorted)}
    IN IF Len(sorted) <= 2 \/ large = {} THEN sorted[1]
       ELSE sorted[(CHOOSE i \in large : \A j \in large : j <= i) + 1]

\* C22: for every non-empty list of block numbers the outlier detection returns
\* the minimum when the list has at most two elements, and otherwise the element
\* right after the last gap between sorted neighbours that exceeds
\* max(10000, 10% of the median), or the minimum when no gap does.
C22_OutlierDetection ==
    (start_block.called /\ Len(block_numbers) > 0) =>
        start_block.value = DescribedStartBlock(block_numbers)

\* code is present at the address: eth_getCode gave real bytecode
CodePresent(r) == r.kind = "str" /\ r.s \notin {"", "0x", "null"}

\* the explorer reports a source body that is not the placeholder, and a name
SourceReported(e) ==
    /\ e.kind = "reply"
    /\ e.status = "1"
    /\ e.source \notin {"", NotVerifiedText}
    /\ e.name # ""

\* every contract of the artifact passed both checks of the last verify_contracts
ChecksPassed ==
    /\ ~world.dry_run
    /\ world.artifact.status = "valid"
    /\ \A n \in ContractAddresses(world.artifact) :
           lastVerify.deployed[n] /\ lastVerify.verified[n]

\* C23: outside dry-run, verify_contracts reports success for an artifact with
\* contracts exactly when every contract has code on chain and a source the
\* explorer reports, and reports failure for an absent artifact and for an
\* artifact without contracts.
C23_AllPassedExact ==
    (verifies > 0 /\ ~world.dry_run) =>
        LET a == world.artifact
        IN /\ (a.status = "absent" \/ (a.status = "valid" /\ ContractAddresses(a) = {}))
                  => vresult = "false"
           /\ (a.status = "valid" /\ ContractAddresses(a) # {}) =>
                  (vresult = "true" <=>
                      \A n \in ContractAddresses(a) :
                          CodePresent(world.rpc[n]) /\ SourceReported(world.explorer[n]))

\* C24: a contract is counted as deployed exactly when eth_getCode returned real
\* bytecode: not when the result is missing, null, empty, "0x" or "null", and
\* not when the call failed.
C24_DeployedPredicate ==
    (verifies > 0 /\ ~world.dry_run /\ world.artifact.status = "valid") =>
        \A n \in ContractAddresses(world.artifact) :
            lastVerify.deployed[n] <=> CodePresent(world.rpc[n])

\* C25: verify_contracts starts the merge, and the config file differs from what
\* it was before the call, only if every contract of the artifact passed the
\* deployed and the verified check of that call.
C25_MergeGatedOnAllPassed ==
    verifies > 0 =>
        ((lastVerify.merged \/ config # lastVerify.pre) => ChecksPassed)

\* C25 witness: both contracts of the artifact passed both checks and the merge
\* wrote them into the config.
C25_Witness ==
    /\ verifies > 0
    /\ world.artifact.contracts = GatewayAndRoot
    /\ ChecksPassed
    /\ lastVerify.merged
    /\ mresult = "ok"
    /\ lastVerify.pre = EmptyConfig
    /\ config.contracts["root"].address = "0xbb"

\* the operator answers yes before answering anything else that counts
OperatorConfirms(answers) ==
    \E i \in 1..Len(answers) :
        /\ StripLower(answers[i]) \in {"y", "yes"}
        /\ \A j \in 1..(i - 1) : StripLower(answers[j]) \notin {"n", "no", "", Interrupt}

\* C26: when all checks passed, the artifact is older than 24 hours and the
\* operator does not confirm, the merge is not run and the config file is what
\* it was; the merge runs only for an artifact that is not older than 24 hours
\* or after the operator confirmed.
C26_StalenessGuard ==
    verifies > 0 =>
        LET age == Clock - world.artifact.mtime
        IN /\ (ChecksPassed /\ age > OneDay /\ ~OperatorConfirms(world.answers)) =>
                  /\ ~lastVerify.merged
                  /\ merges = 0
                  /\ config = lastVerify.pre
                  /\ backup = NoBackup
           /\ lastVerify.merged => (age <= OneDay \/ OperatorConfirms(world.answers))

\* C26 witness: the artifact is 25 hours old, every check passed, the operator
\* pressed return at the prompt, and the config is untouched.
C26_Witness ==
    /\ verifies > 0
    /\ ChecksPassed
    /\ ContractAddresses(world.artifact) # {}
    /\ Clock - world.artifact.mtime = 90000
    /\ world.answers = <<"">>
    /\ ~lastVerify.merged
    /\ lastVerify.pre.contracts["gateway"] = RecordEntry("0xAA", 900, "0x9a")
    /\ config = lastVerify.pre

\* C27: when the merge verify_contracts started ends in failure, verify_contracts
\* reports failure, so that the release does not set the verification flag.
C27_FailedMergeIsFatal ==
    (verifies > 0 /\ lastVerify.merged /\ mresult = "failed") => vresult = "false"

\* the release command has ended and left an exit status
Exited == pc = "idle" /\ result \in {"success", "failure", "error", "load_error"}

\* C28: the release command exits with status 0 only when every network has all
\* four steps done, and with status 1 whenever a network is left with a step
\* not done or VERSION is missing.
C28_ReleaseExitCode ==
    Exited =>
        /\ ExitCode(result) = 0 => AllComplete(summary)
        /\ (~AllComplete(summary) \/ env_version = NoValue) => ExitCode(result) = 1

\* C28 witness: the retries of a step of base-sepolia ran out, the release
\* returned with sepolia complete and base-sepolia not, and the status is 1.
C28_Witness ==
    /\ Exited
    /\ env_version # NoValue
    /\ IsNetworkComplete(summary, "sepolia")
    /\ ~IsNetworkComplete(summary, "base-sepolia")
    /\ summary.failed_at = "base-sepolia"
    /\ ExitCode(result) = 1

\* C29: a successful merge under the version the step's deploymentInfo entry
\* already records leaves every recorded address what it was.
C29_AddressImmutable ==
    (/\ mresult = "ok"
     /\ lastMerge.version # NoValue
     /\ lastMerge.pre.info[DeploymentStep(lastMerge.step)].version = lastMerge.version) =>
        \A n \in ContractNames :
            LET old == lastMerge.pre.contracts[n]
            IN (old.kind # "absent" /\ old.address # NoAddress) =>
                   Lower(config.contracts[n].address) = Lower(old.address)

\* C30: after a successful merge the deploymentInfo entry of the step holds the
\* current git commit, the time of the merge and the release version, under
\* every step name.
C30_DeploymentInfoUpdated ==
    (mresult = "ok" /\ lastMerge.version # NoValue) =>
        LET entry == config.info[DeploymentStep(lastMerge.step)]
        IN /\ entry.present
           /\ entry.gitCommit = GitCommit
           /\ entry.timestamp = Clock
           /\ entry.version = lastMerge.version

\* C31: after a successful merge, a name the artifact does not list with an
\* address keeps the record it had (none, if it had none), whatever the
\* broadcast log holds, and a name the artifact lists with an address has a
\* record with exactly the artifact's address.
C31_BroadcastOnlyEnriches ==
    mresult = "ok" =>
        \A n \in ContractNames :
            LET old == lastMerge.pre.contracts[n]
                new == config.contracts[n]
                entry == lastMerge.artifact.contracts[n]
                listed == entry.kind # "absent" /\ entry.address # NoAddress
            IN /\ ~listed => new = old
               /\ listed => (new.kind = "record" /\ new.address = entry.address)
               /\ new.kind # "absent" <=> (old.kind # "absent" \/ listed)

\* C31 witness: the artifact lists root only; the broadcast log resolves both
\* 0xaa and 0xbb; gateway's record at 0xAA is untouched and root was added at
\* the artifact's address with the block from the log.
C31_Witness ==
    /\ mresult = "ok"
    /\ lastMerge.pre.contracts["gateway"] = RecordEntry("0xAA", 900, "0x9a")
    /\ lastMerge.pre.contracts["root"] = AbsentEntry
    /\ lastMerge.artifact.contracts["gateway"] = AbsentEntry
    /\ lastMerge.artifact.contracts["root"] = StringEntry("0xbb")
    /\ lastMerge.blog["0xaa"].blockNumber = 2000
    /\ config.contracts["gateway"] = RecordEntry("0xAA", 900, "0x9a")
    /\ config.contracts["root"] = RecordEntry("0xbb", 1000, "0xab")

\* C32: the state file has a single writer.  Two invocations that overlap can
\* reach a state where a save put a step the file recorded as done back to not
\* done, and a state where both ran the same step of the same network to
\* success; as long as the invocations come one at a time neither happens.
Doubled == \E n \in Networks, s \in Steps : race.runs[n, s] >= 2

C32_SingleWriter == (race.lost \/ Doubled) => race.overlapped

C32_Witness ==
    /\ race.overlapped
    /\ race.lost
    /\ Doubled
    /\ \A p \in Invocations : procs[p].pc = "idle" /\ procs[p].result \in {"success", "failure"}

\* C33: deploy:adapters and wire run one script on one network; when the runner
\* reports that the script failed, the process exits with a non-zero code.
C33_FailedScriptExitsNonZero ==
    (proc.done /\ cli.step \in {"deploy:adapters", "wire"} /\ ~cli.deploy) => proc.code # 0

\* C40: deploy:protocol on a testnet ends with exit code 0 when the protocol
\* deployment, the verification and the automatic TestData run all succeed,
\* with or without --resume and whether or not the contracts were merged before.
AlreadyDeployed == Contains(cli.forge_args, ResumeFlag) /\ cli.has_latest

ProtocolVerified ==
    \/ AlreadyDeployed
    \/ IF cli.catapulta THEN CatapultaLoop(cli.verify, CatapultaRetries) = "true"
       ELSE cli.verify[1] = "true"

C40_ProtocolSucceedsCleanly ==
    (/\ proc.done
     /\ cli.step = "deploy:protocol"
     /\ cli.is_testnet
     /\ AlreadyDeployed \/ cli.deploy
     /\ ProtocolVerified
     /\ cli.test_data) => proc.code = 0

\* the retry loop of the wiring block hands WireAdapters to the runner
WiringInvoked == pc = "retry" /\ CurStep = "wiring" /\ attempt' = attempt + 1

\* C34: whenever WireAdapters is invoked for a network during a release, every
\* peer network of the release list has its protocol and verification flags true.
C34_WiringAfterPeers ==
    [][WiringInvoked =>
          \A n \in Networks \ {CurNet} :
              StepDone(summary, n, "protocol") /\ StepDone(summary, n, "verification")]_vars

\* C34 as the release guarantees it: whenever WireAdapters is invoked for a
\* network, that network's protocol and verification flags are true and every
\* network before it in the release list has all four flags true.
C34_WiringAfterEarlierNetworks ==
    [][WiringInvoked =>
          /\ StepDone(summary, CurNet, "protocol")
          /\ StepDone(summary, CurNet, "verification")
          /\ \A i \in 1..(net_idx - 1) : \A st \in Steps :
                 StepDone(summary, NetworkList[i], st)]_vars

C34_Witness ==
    /\ lastCall.step = "wiring"
    /\ lastCall.network = NetworkList[2]
    /\ \A st \in Steps : StepDone(summary, NetworkList[1], st)
    /\ NetworkList[3] \notin DOMAIN summary.networks

\* C35: AnvilManager.deploy invokes WireAdapters on a fork only after both forks
\* completed LaunchDeployer, the config merge and TestData; when the deployment
\* of either fork fails it invokes no wiring and returns False; when every
\* external step succeeds it wires both forks and returns True.
ForkDeployed(o) == o.launch /\ o.test_data

ForkCompleted(fork) ==
    \E i, j, k \in 1..Len(anvil.trace) :
        /\ i < j /\ j < k
        /\ anvil.trace[i] = Ran(fork, "LaunchDeployer")
        /\ anvil.trace[j] = Ran(fork, "merge")
        /\ anvil.trace[k] = Ran(fork, "TestData")

Wired(fork) == \E i \in 1..Len(anvil.trace) : anvil.trace[i] = Ran(fork, "WireAdapters")

AllSucceed ==
    /\ forks.setup
    /\ \A f \in {"sepolia", "arbitrum"} :
           /\ ForkDeployed(forks[f])
           /\ forks[f].merge /\ forks[f].merge_test
           /\ forks[f].wire = "ok"

C35_DeployAllThenWireAll ==
    anvil.done =>
        /\ (Wired(SepoliaFork) \/ Wired(ArbitrumFork)) =>
               (ForkCompleted(SepoliaFork) /\ ForkCompleted(ArbitrumFork))
        /\ (forks.setup /\ (~ForkDeployed(forks.sepolia) \/ ~ForkDeployed(forks.arbitrum))) =>
               (~Wired(SepoliaFork) /\ ~Wired(ArbitrumFork) /\ anvil.returned = "false")
        /\ AllSucceed =>
               (Wired(SepoliaFork) /\ Wired(ArbitrumFork) /\ anvil.returned = "true")

\* C36: the first attempt of a deployment step carries the resume marker only
\* if a recent broadcast file of the step's own script and chain exists or the
\* operator put the marker on the command line; a marker added after a failed
\* attempt of an earlier step or network is not carried over.
C36_ResumeDoesNotLeak ==
    (/\ lastCall.step \in DeploySteps
     /\ lastCall.attempt = 1
     /\ Contains(lastCall.cmds[1], ResumeFlag)) =>
        \/ HasPartialDeployment(lastCall.broadcast)
        \/ Contains(atInvoke.args, ResumeFlag)

\* C37: in every persisted state failed_at, when present, names a network that
\* is not complete, and the state does not hold failed_at together with
\* completed_at.
C37_FailedAtNeverStale ==
    (file.status = "valid" /\ file.data.failed_at # NoValue) =>
        /\ ~IsNetworkComplete(file.data, file.data.failed_at)
        /\ ~file.data.completed_at

\* C38: outside dry-run, whenever the release sets a network's verification flag
\* (verify_contracts returned True), the network's config holds every contract
\* of the artifact under the artifact's address; the flag is never set when the
\* staleness guard skipped the merge.
C38_VerifiedImpliesMerged ==
    (verifies > 0 /\ vresult = "true" /\ ~world.dry_run) =>
        /\ lastVerify.merged
        /\ \A n \in ContractAddresses(world.artifact) :
               /\ config.contracts[n].kind = "record"
               /\ config.contracts[n].address = world.artifact.contracts[n].address

\* C39: every release invocation returns, with success or with failure, after at
\* most 3 attempts per step, hence after at most 12 executor invocations per
\* network and 36 in all.
MaxPerNetwork == Retries * Len(StepList)
MaxPerInvocation == MaxPerNetwork * Len(NetworkList)

RECURSIVE SumExecs(_)
SumExecs(ns) ==
    IF ns = {} THEN 0
    ELSE LET n == CHOOSE m \in ns : TRUE IN execs[n] + SumExecs(ns \ {n})

C39_Termination ==
    /\ [](/\ attempt <= Retries
          /\ \A n \in Networks : execs[n] <= MaxPerNetwork
          /\ SumExecs(Networks) <= MaxPerInvocation)
    /\ (pc # "idle") ~> (pc = "idle" /\ result \in {"success", "failure", "error"})

C39_Witness ==
    /\ pc = "idle"
    /\ result = "success"
    /\ \A n \in Networks : execs[n] = MaxPerNetwork
    /\ SumExecs(Networks) = MaxPerInvocation

====
